---- MODULE Spec2Model ----
(***************************************************************************)
(* Tool invocation and orchestration layer of the MCP host                 *)
(* (backend/mcp_core.py, backend/mcp_host_server.py and the three          *)
(* capability providers).                                                  *)
(*                                                                         *)
(* Python strings on which the code computes (request texts, tool and      *)
(* server names) are sequences of one-character strings, so that `in`,     *)
(* split, strip, lower and startswith are computed as Python computes      *)
(* them.  Strings the code only passes around (property names,             *)
(* descriptions, message templates) are TLA+ strings.                      *)
(***************************************************************************)
EXTENDS Integers, Sequences, FiniteSets, TLC

\* ------------------------------------------------------------------------
\* Python str operations
\* ------------------------------------------------------------------------

UpperCase == <<"A","B","C","D","E","F","G","H","I","J","K","L","M",
               "N","O","P","Q","R","S","T","U","V","W","X","Y","Z">>
LowerCase == <<"a","b","c","d","e","f","g","h","i","j","k","l","m",
               "n","o","p","q","r","s","t","u","v","w","x","y","z">>

\* The character ` (a TLA+ string cannot hold it)
Backtick == "BACKTICK"

LowerChar(c) ==
  IF \E i \in DOMAIN UpperCase : UpperCase[i] = c
  THEN LowerCase[CHOOSE i \in DOMAIN UpperCase : UpperCase[i] = c]
  ELSE c

\* str.lower()
Lower(s) == [i \in 1..Len(s) |-> LowerChar(s[i])]

\* sub in s
Contains(s, sub) ==
  \E i \in 1..(Len(s) - Len(sub) + 1) : SubSeq(s, i, i + Len(sub) - 1) = sub

\* s.find(sub), for a sub that occurs in s
FirstIndex(s, sub) ==
  CHOOSE i \in 1..(Len(s) - Len(sub) + 1) :
    /\ SubSeq(s, i, i + Len(sub) - 1) = sub
    /\ \A j \in 1..(i - 1) : SubSeq(s, j, j + Len(sub) - 1) # sub

\* s.startswith(p)
StartsWith(s, p) == Len(p) <= Len(s) /\ SubSeq(s, 1, Len(p)) = p

\* s.endswith(p)
EndsWith(s, p) == Len(p) <= Len(s) /\ SubSeq(s, Len(s) - Len(p) + 1, Len(s)) = p

\* s.split(sep)[0]
BeforeFirst(s, sep) ==
  IF Contains(s, sep) THEN SubSeq(s, 1, FirstIndex(s, sep) - 1) ELSE s

\* the text after the first occurrence of sep, for a sep that occurs in s
AfterFirst(s, sep) == SubSeq(s, FirstIndex(s, sep) + Len(sep), Len(s))

\* s.split(sep)[1], for a sep that occurs in s
SplitSecond(s, sep) == BeforeFirst(AfterFirst(s, sep), sep)

\* s.split(sep, 1)[-1]
SplitOnceLast(s, sep) == IF Contains(s, sep) THEN AfterFirst(s, sep) ELSE s

\* len(s.split(sep))
RECURSIVE SplitCount(_, _)
SplitCount(s, sep) ==
  IF Contains(s, sep) THEN 1 + SplitCount(AfterFirst(s, sep), sep) ELSE 1

IsSpace(c) == c \in {" ", "\n", "\t"}

RECURSIVE LStrip(_)
LStrip(s) == IF s # <<>> /\ IsSpace(Head(s)) THEN LStrip(Tail(s)) ELSE s

RECURSIVE RStrip(_)
RStrip(s) ==
  IF s # <<>> /\ IsSpace(s[Len(s)]) THEN RStrip(SubSeq(s, 1, Len(s) - 1)) ELSE s

\* s.strip()
Strip(s) == RStrip(LStrip(s))

\* the first whitespace-delimited word of a text that starts with none
RECURSIVE FirstWord(_)
FirstWord(s) ==
  IF s = <<>> \/ IsSpace(Head(s)) THEN <<>> ELSE <<Head(s)>> \o FirstWord(Tail(s))

\* s.split(): the whitespace-delimited words, in order
RECURSIVE SplitWords(_)
SplitWords(s) ==
  LET t == LStrip(s)
  IN  IF t = <<>> THEN <<>>
      ELSE <<FirstWord(t)>> \o SplitWords(SubSeq(t, Len(FirstWord(t)) + 1, Len(t)))

\* ------------------------------------------------------------------------
\* Python values: None, str, int, list and dict, as the code tests them
\* ------------------------------------------------------------------------

\* t is the Python type; s the text of a str; n the value of an int or bool
\* or the length of a list; m the mapping of a dict (from its keys to values).
JNone == [t |-> "none", s |-> <<>>, n |-> 0, m |-> <<>>]
JStr(text) == [t |-> "str", s |-> text, n |-> 0, m |-> <<>>]
JInt(k) == [t |-> "int", s |-> <<>>, n |-> k, m |-> <<>>]
JBool(b) == [t |-> "bool", s |-> <<>>, n |-> IF b THEN 1 ELSE 0, m |-> <<>>]
JList(len) == [t |-> "list", s |-> <<>>, n |-> len, m |-> <<>>]
JDict(map) == [t |-> "dict", s |-> <<>>, n |-> 0, m |-> map]
EmptyDict == JDict(<<>>)
\* an object json.dumps cannot serialize (a set, bytes, a response object)
JObject == [t |-> "object", s |-> <<>>, n |-> 0, m |-> <<>>]

\* json.dumps(v) succeeds
Serializable(v) ==
  /\ v.t # "object"
  /\ v.t = "dict" => \A k \in DOMAIN v.m : v.m[k].t # "object"

\* bool(v)
Truthy(v) ==
  CASE v.t = "str" -> v.s # <<>>
    [] v.t = "int" -> v.n # 0
    [] v.t = "bool" -> v.n # 0
    [] v.t = "list" -> v.n # 0
    [] v.t = "dict" -> DOMAIN v.m # {}
    [] v.t = "object" -> TRUE
    [] OTHER -> FALSE

\* hash(v) is defined: a list or a dict is unhashable
Hashable(v) == v.t \notin {"list", "dict"}

\* d.get(k) on a dict d
DictGet(d, k) == IF k \in DOMAIN d.m THEN d.m[k] ELSE JNone

Digits == <<"0","1","2","3","4","5","6","7","8","9">>

\* str(v), as an f-string formats it (ints below 10, the lists [] and [1], the dict {})
Str(v) ==
  CASE v.t = "str" -> v.s
    [] v.t = "none" -> <<"N","o","n","e">>
    [] v.t = "int" -> <<Digits[v.n + 1]>>
    [] v.t = "bool" -> IF v.n = 0 THEN <<"F","a","l","s","e">> ELSE <<"T","r","u","e">>
    [] v.t = "list" -> IF v.n = 0 THEN <<"[","]">> ELSE <<"[","1","]">>
    [] v.t = "object" -> <<"<","o","b","j","e","c","t",">">>
    [] OTHER -> <<"{","}">>

\* ------------------------------------------------------------------------
\* Capability providers: the tool descriptors each one declares
\* ------------------------------------------------------------------------

\* FilesystemMCPServer.list_tools: the descriptors in declaration order.
FilesystemTools ==
  <<
    [ name |-> <<"f","i","l","e","s","y","s","t","e","m",".","r","e","a","d","_","f","i","l","e">>, \* "filesystem.read_file"
      description |-> "Read a file (truncated by default).",
      properties |-> { [name |-> "path", type |-> "string", ranged |-> FALSE, minimum |-> 0, maximum |-> 0],
                       [name |-> "max_chars", type |-> "integer", ranged |-> FALSE, minimum |-> 0, maximum |-> 0] },
      hasRequired |-> TRUE,
      required |-> <<"path">> ],
    [ name |-> <<"f","i","l","e","s","y","s","t","e","m",".","w","r","i","t","e","_","f","i","l","e">>, \* "filesystem.write_file"
      description |-> "Write (overwrite) a file. Performs atomic write and enforces max size.",
      properties |-> { [name |-> "path", type |-> "string", ranged |-> FALSE, minimum |-> 0, maximum |-> 0],
                       [name |-> "content", type |-> "string", ranged |-> FALSE, minimum |-> 0, maximum |-> 0],
                       [name |-> "max_bytes", type |-> "integer", ranged |-> FALSE, minimum |-> 0, maximum |-> 0] },
      hasRequired |-> TRUE,
      required |-> <<"path", "content">> ],
    [ name |-> <<"f","i","l","e","s","y","s","t","e","m",".","a","p","p","e","n","d","_","f","i","l","e">>, \* "filesystem.append_file"
      description |-> "Append content to existing file (creates file if missing).",
      properties |-> { [name |-> "path", type |-> "string", ranged |-> FALSE, minimum |-> 0, maximum |-> 0],
                       [name |-> "content", type |-> "string", ranged |-> FALSE, minimum |-> 0, maximum |-> 0],
                       [name |-> "max_append_bytes", type |-> "integer", ranged |-> FALSE, minimum |-> 0, maximum |-> 0] },
      hasRequired |-> TRUE,
      required |-> <<"path", "content">> ],
    [ name |-> <<"f","i","l","e","s","y","s","t","e","m",".","l","i","s","t","_","d","i","r">>, \* "filesystem.list_dir"
      description |-> "List directory contents (files and directories).",
      properties |-> { [name |-> "path", type |-> "string", ranged |-> FALSE, minimum |-> 0, maximum |-> 0] },
      hasRequired |-> TRUE,
      required |-> <<"path">> ],
    [ name |-> <<"f","i","l","e","s","y","s","t","e","m",".","m","a","k","e","_","d","i","r","e","c","t","o","r","y">>, \* "filesystem.make_directory"
      description |-> "Create directory (recursively).",
      properties |-> { [name |-> "path", type |-> "string", ranged |-> FALSE, minimum |-> 0, maximum |-> 0] },
      hasRequired |-> TRUE,
      required |-> <<"path">> ],
    [ name |-> <<"f","i","l","e","s","y","s","t","e","m",".","f","i","l","e","_","e","x","i","s","t","s">>, \* "filesystem.file_exists"
      description |-> "Check if file/directory exists.",
      properties |-> { [name |-> "path", type |-> "string", ranged |-> FALSE, minimum |-> 0, maximum |-> 0] },
      hasRequired |-> TRUE,
      required |-> <<"path">> ],
    [ name |-> <<"f","i","l","e","s","y","s","t","e","m",".","d","e","l","e","t","e">>, \* "filesystem.delete"
      description |-> "Delete a file or empty directory.",
      properties |-> { [name |-> "path", type |-> "string", ranged |-> FALSE, minimum |-> 0, maximum |-> 0],
                       [name |-> "recursive", type |-> "boolean", ranged |-> FALSE, minimum |-> 0, maximum |-> 0] },
      hasRequired |-> TRUE,
      required |-> <<"path">> ],
    [ name |-> <<"f","i","l","e","s","y","s","t","e","m",".","m","o","v","e">>, \* "filesystem.move"
      description |-> "Move/rename a file or directory inside sandbox.",
      properties |-> { [name |-> "src", type |-> "string", ranged |-> FALSE, minimum |-> 0, maximum |-> 0],
                       [name |-> "dst", type |-> "string", ranged |-> FALSE, minimum |-> 0, maximum |-> 0] },
      hasRequired |-> TRUE,
      required |-> <<"src", "dst">> ],
    [ name |-> <<"f","i","l","e","s","y","s","t","e","m",".","c","o","p","y">>, \* "filesystem.copy"
      description |-> "Copy a file inside sandbox.",
      properties |-> { [name |-> "src", type |-> "string", ranged |-> FALSE, minimum |-> 0, maximum |-> 0],
                       [name |-> "dst", type |-> "string", ranged |-> FALSE, minimum |-> 0, maximum |-> 0] },
      hasRequired |-> TRUE,
      required |-> <<"src", "dst">> ],
    [ name |-> <<"f","i","l","e","s","y","s","t","e","m",".","g","e","t","_","m","e","t","a","d","a","t","a">>, \* "filesystem.get_metadata"
      description |-> "Get file metadata (size, is_dir, modified_time).",
      properties |-> { [name |-> "path", type |-> "string", ranged |-> FALSE, minimum |-> 0, maximum |-> 0] },
      hasRequired |-> TRUE,
      required |-> <<"path">> ],
    [ name |-> <<"f","i","l","e","s","y","s","t","e","m",".","s","e","a","r","c","h","_","f","i","l","e","s">>, \* "filesystem.search_files"
      description |-> "Search files with glob pattern under a directory.",
      properties |-> { [name |-> "path", type |-> "string", ranged |-> FALSE, minimum |-> 0, maximum |-> 0],
                       [name |-> "pattern", type |-> "string", ranged |-> FALSE, minimum |-> 0, maximum |-> 0],
                       [name |-> "max_results", type |-> "integer", ranged |-> FALSE, minimum |-> 0, maximum |-> 0] },
      hasRequired |-> TRUE,
      required |-> <<"path", "pattern">> ]
  >>

\* BrowserMCPServer.list_tools: the descriptors in declaration order.
BrowserTools ==
  <<
    [ name |-> <<"b","r","o","w","s","e","r",".","p","e","r","f","o","r","m","_","g","o","o","g","l","e","_","s","e","a","r","c","h">>, \* "browser.perform_google_search"
      description |-> "Perform Google search; returns top results (title + link).",
      properties |-> { [name |-> "query", type |-> "string", ranged |-> FALSE, minimum |-> 0, maximum |-> 0],
                       [name |-> "count", type |-> "integer", ranged |-> TRUE, minimum |-> 1, maximum |-> 20] },
      hasRequired |-> TRUE,
      required |-> <<"query">> ],
    [ name |-> <<"b","r","o","w","s","e","r",".","p","e","r","f","o","r","m","_","b","i","n","g","_","s","e","a","r","c","h">>, \* "browser.perform_bing_search"
      description |-> "Perform Bing search; returns top results (title + link).",
      properties |-> { [name |-> "query", type |-> "string", ranged |-> FALSE, minimum |-> 0, maximum |-> 0],
                       [name |-> "count", type |-> "integer", ranged |-> TRUE, minimum |-> 1, maximum |-> 20] },
      hasRequired |-> TRUE,
      required |-> <<"query">> ],
    [ name |-> <<"b","r","o","w","s","e","r",".","b","r","o","w","s","e","_","w","e","b","s","i","t","e">>, \* "browser.browse_website"
      description |-> "Visit a URL and extract cleaned text snippet and title.",
      properties |-> { [name |-> "url", type |-> "string", ranged |-> FALSE, minimum |-> 0, maximum |-> 0],
                       [name |-> "max_chars", type |-> "integer", ranged |-> TRUE, minimum |-> 100, maximum |-> 10000] },
      hasRequired |-> TRUE,
      required |-> <<"url">> ],
    [ name |-> <<"b","r","o","w","s","e","r",".","f","e","t","c","h","_","m","e","t","a","d","a","t","a">>, \* "browser.fetch_metadata"
      description |-> "Fetch page metadata: title, meta description, open graph tags.",
      properties |-> { [name |-> "url", type |-> "string", ranged |-> FALSE, minimum |-> 0, maximum |-> 0] },
      hasRequired |-> TRUE,
      required |-> <<"url">> ],
    [ name |-> <<"b","r","o","w","s","e","r",".","e","x","t","r","a","c","t","_","l","i","n","k","s">>, \* "browser.extract_links"
      description |-> "Extract links from the page (normalized absolute URLs).",
      properties |-> { [name |-> "url", type |-> "string", ranged |-> FALSE, minimum |-> 0, maximum |-> 0],
                       [name |-> "max_links", type |-> "integer", ranged |-> TRUE, minimum |-> 1, maximum |-> 100] },
      hasRequired |-> TRUE,
      required |-> <<"url">> ],
    [ name |-> <<"b","r","o","w","s","e","r",".","t","a","k","e","_","s","c","r","e","e","n","s","h","o","t">>, \* "browser.take_screenshot"
      description |-> "Take a PNG screenshot of the page and return Base64-encoded bytes.",
      properties |-> { [name |-> "url", type |-> "string", ranged |-> FALSE, minimum |-> 0, maximum |-> 0],
                       [name |-> "full_page", type |-> "boolean", ranged |-> FALSE, minimum |-> 0, maximum |-> 0] },
      hasRequired |-> TRUE,
      required |-> <<"url">> ],
    [ name |-> <<"b","r","o","w","s","e","r",".","h","e","a","d","_","r","e","q","u","e","s","t">>, \* "browser.head_request"
      description |-> "Perform a HEAD request to check status and content-type (faster than full render).",
      properties |-> { [name |-> "url", type |-> "string", ranged |-> FALSE, minimum |-> 0, maximum |-> 0] },
      hasRequired |-> TRUE,
      required |-> <<"url">> ]
  >>

\* GitHubMCPServer.list_tools: the descriptors in declaration order.
GitHubTools ==
  <<
    [ name |-> <<"g","i","t","h","u","b",".","r","a","t","e","_","l","i","m","i","t">>, \* "github.rate_limit"
      description |-> "Return current GitHub API rate limit info.",
      properties |-> { [name |-> "github_token", type |-> "string", ranged |-> FALSE, minimum |-> 0, maximum |-> 0] },
      hasRequired |-> FALSE,
      required |-> <<>> ],
    [ name |-> <<"g","i","t","h","u","b",".","l","i","s","t","_","r","e","p","o","s">>, \* "github.list_repos"
      description |-> "List repositories for the authenticated user or a given owner.",
      properties |-> { [name |-> "owner", type |-> "string", ranged |-> FALSE, minimum |-> 0, maximum |-> 0],
                       [name |-> "limit", type |-> "integer", ranged |-> FALSE, minimum |-> 0, maximum |-> 0],
                       [name |-> "github_token", type |-> "string", ranged |-> FALSE, minimum |-> 0, maximum |-> 0] },
      hasRequired |-> FALSE,
      required |-> <<>> ],
    [ name |-> <<"g","i","t","h","u","b",".","g","e","t","_","r","e","p","o">>, \* "github.get_repo"
      description |-> "Get repo metadata (owner/repo).",
      properties |-> { [name |-> "repo_full_name", type |-> "string", ranged |-> FALSE, minimum |-> 0, maximum |-> 0],
                       [name |-> "github_token", type |-> "string", ranged |-> FALSE, minimum |-> 0, maximum |-> 0] },
      hasRequired |-> TRUE,
      required |-> <<"repo_full_name">> ],
    [ name |-> <<"g","i","t","h","u","b",".","r","e","a","d","_","f","i","l","e">>, \* "github.read_file"
      description |-> "Read a file from a repo at optional ref.",
      properties |-> { [name |-> "repo_full_name", type |-> "string", ranged |-> FALSE, minimum |-> 0, maximum |-> 0],
                       [name |-> "path", type |-> "string", ranged |-> FALSE, minimum |-> 0, maximum |-> 0],
                       [name |-> "ref", type |-> "string", ranged |-> FALSE, minimum |-> 0, maximum |-> 0],
                       [name |-> "github_token", type |-> "string", ranged |-> FALSE, minimum |-> 0, maximum |-> 0] },
      hasRequired |-> TRUE,
      required |-> <<"repo_full_name", "path">> ],
    [ name |-> <<"g","i","t","h","u","b",".","c","r","e","a","t","e","_","o","r","_","u","p","d","a","t","e","_","f","i","l","e">>, \* "github.create_or_update_file"
      description |-> "Create or update a file in a repo. Provide commit_message, path, content, optional branch/author.",
      properties |-> { [name |-> "repo_full_name", type |-> "string", ranged |-> FALSE, minimum |-> 0, maximum |-> 0],
                       [name |-> "path", type |-> "string", ranged |-> FALSE, minimum |-> 0, maximum |-> 0],
                       [name |-> "content", type |-> "string", ranged |-> FALSE, minimum |-> 0, maximum |-> 0],
                       [name |-> "commit_message", type |-> "string", ranged |-> FALSE, minimum |-> 0, maximum |-> 0],
                       [name |-> "branch", type |-> "string", ranged |-> FALSE, minimum |-> 0, maximum |-> 0],
                       [name |-> "author_name", type |-> "string", ranged |-> FALSE, minimum |-> 0, maximum |-> 0],
                       [name |-> "author_email", type |-> "string", ranged |-> FALSE, minimum |-> 0, maximum |-> 0],
                       [name |-> "github_token", type |-> "string", ranged |-> FALSE, minimum |-> 0, maximum |-> 0] },
      hasRequired |-> TRUE,
      required |-> <<"repo_full_name", "path", "content", "commit_message">> ],
    [ name |-> <<"g","i","t","h","u","b",".","d","e","l","e","t","e","_","f","i","l","e">>, \* "github.delete_file"
      description |-> "Delete a file in a repo (provide commit_message).",
      properties |-> { [name |-> "repo_full_name", type |-> "string", ranged |-> FALSE, minimum |-> 0, maximum |-> 0],
                       [name |-> "path", type |-> "string", ranged |-> FALSE, minimum |-> 0, maximum |-> 0],
                       [name |-> "commit_message", type |-> "string", ranged |-> FALSE, minimum |-> 0, maximum |-> 0],
                       [name |-> "branch", type |-> "string", ranged |-> FALSE, minimum |-> 0, maximum |-> 0],
                       [name |-> "github_token", type |-> "string", ranged |-> FALSE, minimum |-> 0, maximum |-> 0] },
      hasRequired |-> TRUE,
      required |-> <<"repo_full_name", "path", "commit_message">> ],
    [ name |-> <<"g","i","t","h","u","b",".","l","i","s","t","_","b","r","a","n","c","h","e","s">>, \* "github.list_branches"
      description |-> "List branches for a repo.",
      properties |-> { [name |-> "repo_full_name", type |-> "string", ranged |-> FALSE, minimum |-> 0, maximum |-> 0],
                       [name |-> "github_token", type |-> "string", ranged |-> FALSE, minimum |-> 0, maximum |-> 0] },
      hasRequired |-> TRUE,
      required |-> <<"repo_full_name">> ],
    [ name |-> <<"g","i","t","h","u","b",".","c","r","e","a","t","e","_","b","r","a","n","c","h">>, \* "github.create_branch"
      description |-> "Create a branch from a base branch or commit SHA.",
      properties |-> { [name |-> "repo_full_name", type |-> "string", ranged |-> FALSE, minimum |-> 0, maximum |-> 0],
                       [name |-> "new_branch", type |-> "string", ranged |-> FALSE, minimum |-> 0, maximum |-> 0],
                       [name |-> "base", type |-> "string", ranged |-> FALSE, minimum |-> 0, maximum |-> 0],
                       [name |-> "github_token", type |-> "string", ranged |-> FALSE, minimum |-> 0, maximum |-> 0] },
      hasRequired |-> TRUE,
      required |-> <<"repo_full_name", "new_branch", "base">> ],
    [ name |-> <<"g","i","t","h","u","b",".","l","i","s","t","_","i","s","s","u","e","s">>, \* "github.list_issues"
      description |-> "List issues in a repo (state=open/closed/all).",
      properties |-> { [name |-> "repo_full_name", type |-> "string", ranged |-> FALSE, minimum |-> 0, maximum |-> 0],
                       [name |-> "state", type |-> "string", ranged |-> FALSE, minimum |-> 0, maximum |-> 0],
                       [name |-> "github_token", type |-> "string", ranged |-> FALSE, minimum |-> 0, maximum |-> 0] },
      hasRequired |-> TRUE,
      required |-> <<"repo_full_name">> ],
    [ name |-> <<"g","i","t","h","u","b",".","c","r","e","a","t","e","_","i","s","s","u","e">>, \* "github.create_issue"
      description |-> "Create an issue (title, body, labels optional).",
      properties |-> { [name |-> "repo_full_name", type |-> "string", ranged |-> FALSE, minimum |-> 0, maximum |-> 0],
                       [name |-> "title", type |-> "string", ranged |-> FALSE, minimum |-> 0, maximum |-> 0],
                       [name |-> "body", type |-> "string", ranged |-> FALSE, minimum |-> 0, maximum |-> 0],
                       [name |-> "labels", type |-> "array", ranged |-> FALSE, minimum |-> 0, maximum |-> 0],
                       [name |-> "github_token", type |-> "string", ranged |-> FALSE, minimum |-> 0, maximum |-> 0] },
      hasRequired |-> TRUE,
      required |-> <<"repo_full_name", "title">> ],
    [ name |-> <<"g","i","t","h","u","b",".","c","r","e","a","t","e","_","p","u","l","l","_","r","e","q","u","e","s","t">>, \* "github.create_pull_request"
      description |-> "Create a PR (head branch, base branch, title required).",
      properties |-> { [name |-> "repo_full_name", type |-> "string", ranged |-> FALSE, minimum |-> 0, maximum |-> 0],
                       [name |-> "head", type |-> "string", ranged |-> FALSE, minimum |-> 0, maximum |-> 0],
                       [name |-> "base", type |-> "string", ranged |-> FALSE, minimum |-> 0, maximum |-> 0],
                       [name |-> "title", type |-> "string", ranged |-> FALSE, minimum |-> 0, maximum |-> 0],
                       [name |-> "body", type |-> "string", ranged |-> FALSE, minimum |-> 0, maximum |-> 0],
                       [name |-> "github_token", type |-> "string", ranged |-> FALSE, minimum |-> 0, maximum |-> 0] },
      hasRequired |-> TRUE,
      required |-> <<"repo_full_name", "head", "base", "title">> ],
    [ name |-> <<"g","i","t","h","u","b",".","g","e","t","_","c","o","m","m","i","t","s">>, \* "github.get_commits"
      description |-> "List recent commits on a branch or sha (count optional).",
      properties |-> { [name |-> "repo_full_name", type |-> "string", ranged |-> FALSE, minimum |-> 0, maximum |-> 0],
                       [name |-> "sha", type |-> "string", ranged |-> FALSE, minimum |-> 0, maximum |-> 0],
                       [name |-> "count", type |-> "integer", ranged |-> FALSE, minimum |-> 0, maximum |-> 0],
                       [name |-> "github_token", type |-> "string", ranged |-> FALSE, minimum |-> 0, maximum |-> 0] },
      hasRequired |-> TRUE,
      required |-> <<"repo_full_name">> ]
  >>

\* Registration keys of load_tools' candidates
KeyFilesystem == <<"f","i","l","e","s","y","s","t","e","m">>
KeyBrowser == <<"b","r","o","w","s","e","r">>
KeyGitHub == <<"g","i","t","h","u","b">>

Candidates == <<KeyFilesystem, KeyBrowser, KeyGitHub>>

\* ------------------------------------------------------------------------
\* mcp_core: ToolExecutionError, IMCPExternalServer
\* ------------------------------------------------------------------------

\* A formatted message: the template, and the texts, the property names and
\* the value put into it.
Msg(fmt, texts, keys) == [fmt |-> fmt, a |-> texts, keys |-> keys, v |-> JNone]
MsgOf(fmt, value) == [fmt |-> fmt, a |-> <<>>, keys |-> <<>>, v |-> value]
NoMsg == Msg("", <<>>, <<>>)

\* The outcome of a call: a returned payload or a raised exception.  code
\* is ToolExecutionError.code (0 when the exception carries none); invoked
\* lists the execute implementations called, with the arguments passed.
Returned(payload, invoked) ==
  [raised |-> FALSE, exc |-> "", code |-> 0, message |-> NoMsg,
   payload |-> payload, invoked |-> invoked]
Raised(exc, code, message, invoked) ==
  [raised |-> TRUE, exc |-> exc, code |-> code, message |-> message,
   payload |-> JNone, invoked |-> invoked]

\* ToolExecutionError(message, code)
ToolExecutionError(message, code) == Raised("ToolExecutionError", code, message, <<>>)

\* Classes caught by `except Exception`: asyncio.CancelledError,
\* KeyboardInterrupt and SystemExit derive from BaseException only.
IsException(exc) == exc \notin {"CancelledError", "KeyboardInterrupt", "SystemExit"}

\* The instances load_tools creates.  asyncImpl / syncImpl say what the
\* class defines under the names async_execute_tool / execute_tool: "base"
\* (inherited from IMCPExternalServer), "coroutine" (an async def) or
\* "plain" (a def).
FilesystemMCPServer ==
  [cls |-> "FilesystemMCPServer", name |-> <<"F","i","l","e","s","y","s","t","e","m">>, tools |-> FilesystemTools,
   asyncImpl |-> "base", syncImpl |-> "plain"]
BrowserMCPServer ==
  [cls |-> "BrowserMCPServer", name |-> <<"B","r","o","w","s","e","r">>, tools |-> BrowserTools,
   asyncImpl |-> "base", syncImpl |-> "coroutine"]
GitHubMCPServer ==
  [cls |-> "GitHubMCPServer", name |-> <<"G","i","t","H","u","b">>, tools |-> GitHubTools,
   asyncImpl |-> "base", syncImpl |-> "plain"]

\* list_tools()
list_tools(srv) == srv.tools

\* tool_by_name comparing the names without regard to case
tool_by_name_nocase(srv, tool_name) ==
  LET hits == {i \in DOMAIN list_tools(srv) :
                 tool_name.t = "str" /\ Lower(list_tools(srv)[i].name) = Lower(tool_name.s)}
  IN  IF hits = {} THEN 0 ELSE CHOOSE i \in hits : \A j \in hits : i <= j

\* tool_by_name: the index in list_tools() of the first descriptor with
\* that name, 0 for None.  A name that is no str equals no descriptor's name.
tool_by_name(srv, tool_name) ==
  LET hits == {i \in DOMAIN list_tools(srv) :
                 tool_name.t = "str" /\ list_tools(srv)[i].name = tool_name.s}
  IN  IF hits = {} THEN 0 ELSE CHOOSE i \in hits : \A j \in hits : i <= j

\* jsonschema's type check of one declared property
TypeMatches(type, v) ==
  CASE type = "string" -> v.t = "str"
    [] type = "integer" -> v.t = "int"
    [] type = "boolean" -> v.t = "bool"
    [] type = "array" -> v.t = "list"
    [] OTHER -> TRUE

\* jsonschema.validate(instance=args, schema=tool.parameters) passes: args
\* is an object, holds every required property, and every declared property
\* it holds has the declared type and lies in the declared range.
SchemaAccepts(tool, args) ==
  /\ \A i \in DOMAIN tool.required : tool.required[i] \in DOMAIN args.m
  /\ \A p \in tool.properties :
       p.name \in DOMAIN args.m =>
         /\ TypeMatches(p.type, args.m[p.name])
         /\ (p.ranged /\ args.m[p.name].t = "int") =>
              (p.minimum <= args.m[p.name].n /\ args.m[p.name].n <= p.maximum)

\* MissingRequired looking at the first required property only
MissingRequiredFirst(tool, args) ==
  SelectSeq(SubSeq(tool.required, 1, 1), LAMBDA r : r \notin DOMAIN args.m)

\* missing = [r for r in required if r not in args]
MissingRequired(tool, args) ==
  SelectSeq(tool.required, LAMBDA r : r \notin DOMAIN args.m)

\* validate_args: Returned(None) or the ToolExecutionError raised
validate_args(tool, args, haveJsonschema) ==
  IF args.t # "dict"
  THEN ToolExecutionError(Msg("Tool arguments must be an object/dict", <<>>, <<>>), 400)
  ELSE IF haveJsonschema
  THEN IF SchemaAccepts(tool, args)
       THEN Returned(JNone, <<>>)
       ELSE ToolExecutionError(Msg("Argument validation failed: {}", <<>>, <<>>), 400)
  ELSE IF tool.hasRequired /\ tool.required # <<>> /\ MissingRequired(tool, args) # <<>>
       THEN ToolExecutionError(
              Msg("Missing required parameters: {}", <<>>, MissingRequired(tool, args)), 400)
       ELSE Returned(JNone, <<>>)

\* `impl is not None and impl is not IMCPExternalServer.<method>`:
\* getattr(self, ...) yields a bound method object and the right-hand side
\* is the class's plain function, so the identity test holds for every
\* instance, whether or not its class overrides the method.
ImplIsNotBase(impl) == TRUE

\* What calling the implementation found under a method name does: the base
\* class's stub raises NotImplementedError, a subclass's implementation does
\* what the provider does (outcome).
CallImpl(impl, method, outcome) ==
  IF impl = "base"
  THEN Raised("NotImplementedError", 0,
              Msg(IF method = "async_execute_tool"
                  THEN "async_execute_tool not implemented (async)"
                  ELSE "execute_tool not implemented (sync)", <<>>, <<>>), <<>>)
  ELSE outcome

\* The record of one call of an execute implementation
Invocation(method, impl, tool_name, args) ==
  [method |-> method, impl |-> impl, tool_name |-> tool_name, args |-> args]

\* Dispatch that goes on to the synchronous implementation when the
\* asynchronous one raised
DispatchRetry(srv, tool_name, args, outcome) ==
  LET first == [CallImpl(srv.asyncImpl, "async_execute_tool", outcome) EXCEPT
                  !.invoked = <<Invocation("async_execute_tool", srv.asyncImpl, tool_name, args)>>]
      second == CallImpl(srv.syncImpl, "execute_tool", outcome)
  IN  IF first.raised
      THEN [second EXCEPT
              !.invoked = first.invoked \o
                          <<Invocation("execute_tool", srv.syncImpl, tool_name, args)>>]
      ELSE first

\* The body of run_tool's try block after validation (lines 111-134)
Dispatch(srv, tool_name, args, outcome) ==
  IF ImplIsNotBase(srv.asyncImpl)
  THEN [CallImpl(srv.asyncImpl, "async_execute_tool", outcome) EXCEPT
          !.invoked = <<Invocation("async_execute_tool", srv.asyncImpl, tool_name, args)>>]
  ELSE IF ImplIsNotBase(srv.syncImpl)
  THEN [CallImpl(srv.syncImpl, "execute_tool", outcome) EXCEPT
          !.invoked = <<Invocation("execute_tool", srv.syncImpl, tool_name, args)>>]
  ELSE ToolExecutionError(Msg("No tool execution method implemented in server", <<>>, <<>>), 501)

\* args or {}
OrEmptyDict(args) == IF Truthy(args) THEN args ELSE EmptyDict

\* run_tool's try block (lines 98-134)
RunToolBody(srv, tool_name, args, outcome, haveJsonschema) ==
  LET i == tool_by_name(srv, tool_name)
      checked == validate_args(list_tools(srv)[i], OrEmptyDict(args), haveJsonschema)
  IN  IF i = 0
      THEN ToolExecutionError(
             Msg("Tool '{}' not found on server '{}'", <<Str(tool_name), srv.name>>, <<>>), 404)
      ELSE IF checked.raised /\ checked.exc = "ToolExecutionError"
      THEN checked
      ELSE IF checked.raised /\ IsException(checked.exc)
      THEN ToolExecutionError(
             Msg("Invalid arguments for tool '{}': {}", <<Str(tool_name)>>, <<>>), 400)
      ELSE Dispatch(srv, tool_name, args, outcome)

\* run_tool without its outer exception handlers
run_tool_unwrapped(srv, tool_name, args, outcome, haveJsonschema) ==
  RunToolBody(srv, tool_name, args, outcome, haveJsonschema)

\* run_tool: a ToolExecutionError passes, any other Exception is wrapped
\* with code 500 and the same message, a BaseException propagates.
run_tool(srv, tool_name, args, outcome, haveJsonschema) ==
  LET r == RunToolBody(srv, tool_name, args, outcome, haveJsonschema)
  IN  IF r.raised /\ r.exc # "ToolExecutionError" /\ IsException(r.exc)
      THEN [r EXCEPT !.exc = "ToolExecutionError", !.code = 500]
      ELSE r

\* ------------------------------------------------------------------------
\* mcp_host_server: tool selection helpers
\* ------------------------------------------------------------------------

\* clean_json_string, for a str
clean_json_string(json_str) ==
  LET s0 == Strip(json_str)
      s1 == IF StartsWith(s0, <<Backtick,Backtick,Backtick,"j","s","o","n">>) THEN SubSeq(s0, 8, Len(s0)) ELSE s0
      s2 == IF StartsWith(s1, <<Backtick,Backtick,Backtick>>) THEN SubSeq(s1, 4, Len(s1)) ELSE s1
      s3 == IF EndsWith(s2, <<Backtick,Backtick,Backtick>>) THEN SubSeq(s2, 1, Len(s2) - 3) ELSE s2
  IN  Strip(s3)

\* Sample texts of the planner's reply (resp.text)
ReplyBlank == <<>>
ReplyEmptyObject == <<"{","}">>
ReplyFencedEmptyObject == <<Backtick,Backtick,Backtick,"j","s","o","n","\n","{","}","\n",Backtick,Backtick,Backtick>>
ReplySpacedEmptyObject == <<"{"," ","}">>
ReplyProse == <<"n","o"," ","t","o","o","l">>
ReplyNull == <<"n","u","l","l">>
ReplyEmptyList == <<"[","]">>
ReplyList == <<"[","1","]">>
ReplyNumber == <<"5">>
ReplyReadFile == <<"{","\"","s","e","r","v","e","r","_","n","a","m","e","\"",":","\"","f","i","l","e","s","y","s","t","e","m","\"",",","\"","t","o","o","l","_","n","a","m","e","\"",":","\"","f","i","l","e","s","y","s","t","e","m",".","r","e","a","d","_","f","i","l","e","\"",",","\"","a","r","g","s","\"",":","{","\"","p","a","t","h","\"",":","\"","a",".","t","x","t","\"","}","}">>
ReplyFencedListDir == <<Backtick,Backtick,Backtick,"j","s","o","n","\n","{","\"","s","e","r","v","e","r","_","n","a","m","e","\"",":","\"","f","i","l","e","s","y","s","t","e","m","\"",",","\"","t","o","o","l","_","n","a","m","e","\"",":","\"","f","i","l","e","s","y","s","t","e","m",".","l","i","s","t","_","d","i","r","\"",",","\"","a","r","g","s","\"",":","{","\"","p","a","t","h","\"",":","\"",".","\"","}","}","\n",Backtick,Backtick,Backtick>>
ReplyNoServer == <<"{","\"","t","o","o","l","_","n","a","m","e","\"",":","\"","b","r","o","w","s","e","r",".","p","e","r","f","o","r","m","_","g","o","o","g","l","e","_","s","e","a","r","c","h","\"",",","\"","a","r","g","s","\"",":","{","\"","q","u","e","r","y","\"",":","\"","x","\"","}","}">>
ReplyNoPrefix == <<"{","\"","s","e","r","v","e","r","_","n","a","m","e","\"",":","\"","f","i","l","e","s","y","s","t","e","m","\"",",","\"","t","o","o","l","_","n","a","m","e","\"",":","\"","l","i","s","t","_","d","i","r","\"",",","\"","a","r","g","s","\"",":","{","\"","p","a","t","h","\"",":","\"",".","\"","}","}">>
ReplyOtherPrefix == <<"{","\"","s","e","r","v","e","r","_","n","a","m","e","\"",":","\"","f","i","l","e","s","y","s","t","e","m","\"",",","\"","t","o","o","l","_","n","a","m","e","\"",":","\"","b","r","o","w","s","e","r",".","b","r","o","w","s","e","_","w","e","b","s","i","t","e","\"",",","\"","a","r","g","s","\"",":","{","\"","u","r","l","\"",":","\"","u","\"","}","}">>
ReplyUnknownServer == <<"{","\"","s","e","r","v","e","r","_","n","a","m","e","\"",":","\"","s","l","a","c","k","\"",",","\"","t","o","o","l","_","n","a","m","e","\"",":","\"","p","o","s","t","\"",",","\"","a","r","g","s","\"",":","{","}","}">>
ReplyUnknownPrefix == <<"{","\"","t","o","o","l","_","n","a","m","e","\"",":","\"","s","l","a","c","k",".","p","o","s","t","\"","}">>
ReplyUnknownTool == <<"{","\"","s","e","r","v","e","r","_","n","a","m","e","\"",":","\"","g","i","t","h","u","b","\"",",","\"","t","o","o","l","_","n","a","m","e","\"",":","\"","g","i","t","h","u","b",".","f","o","r","k","\"",",","\"","a","r","g","s","\"",":","{","}","}">>
ReplyToolNumber == <<"{","\"","s","e","r","v","e","r","_","n","a","m","e","\"",":","\"","g","i","t","h","u","b","\"",",","\"","t","o","o","l","_","n","a","m","e","\"",":","5","}">>
ReplyToolNumberNoServer == <<"{","\"","t","o","o","l","_","n","a","m","e","\"",":","5","}">>
ReplyToolZero == <<"{","\"","s","e","r","v","e","r","_","n","a","m","e","\"",":","\"","g","i","t","h","u","b","\"",",","\"","t","o","o","l","_","n","a","m","e","\"",":","0","}">>
ReplyServerList == <<"{","\"","s","e","r","v","e","r","_","n","a","m","e","\"",":","[","1","]",",","\"","t","o","o","l","_","n","a","m","e","\"",":","\"","a",".","b","\"","}">>
ReplyServerNumber == <<"{","\"","s","e","r","v","e","r","_","n","a","m","e","\"",":","5",",","\"","t","o","o","l","_","n","a","m","e","\"",":","\"","a",".","b","\"","}">>
ReplyServerBlank == <<"{","\"","s","e","r","v","e","r","_","n","a","m","e","\"",":","\"","\"",",","\"","t","o","o","l","_","n","a","m","e","\"",":","\"","g","i","t","h","u","b",".","g","e","t","_","r","e","p","o","\"","}">>
ReplyArgsList == <<"{","\"","s","e","r","v","e","r","_","n","a","m","e","\"",":","\"","f","i","l","e","s","y","s","t","e","m","\"",",","\"","t","o","o","l","_","n","a","m","e","\"",":","\"","f","i","l","e","s","y","s","t","e","m",".","r","e","a","d","_","f","i","l","e","\"",",","\"","a","r","g","s","\"",":","[","1","]","}">>
ReplyArgsNull == <<"{","\"","s","e","r","v","e","r","_","n","a","m","e","\"",":","\"","g","i","t","h","u","b","\"",",","\"","t","o","o","l","_","n","a","m","e","\"",":","\"","g","i","t","h","u","b",".","r","a","t","e","_","l","i","m","i","t","\"",",","\"","a","r","g","s","\"",":","n","u","l","l","}">>
ReplyMissingRequired == <<"{","\"","s","e","r","v","e","r","_","n","a","m","e","\"",":","\"","f","i","l","e","s","y","s","t","e","m","\"",",","\"","t","o","o","l","_","n","a","m","e","\"",":","\"","f","i","l","e","s","y","s","t","e","m",".","w","r","i","t","e","_","f","i","l","e","\"",",","\"","a","r","g","s","\"",":","{","\"","p","a","t","h","\"",":","\"","a",".","t","x","t","\"","}","}">>
ReplyBelowMinimum == <<"{","\"","s","e","r","v","e","r","_","n","a","m","e","\"",":","\"","b","r","o","w","s","e","r","\"",",","\"","t","o","o","l","_","n","a","m","e","\"",":","\"","b","r","o","w","s","e","r",".","p","e","r","f","o","r","m","_","g","o","o","g","l","e","_","s","e","a","r","c","h","\"",",","\"","a","r","g","s","\"",":","{","\"","q","u","e","r","y","\"",":","\"","x","\"",",","\"","c","o","u","n","t","\"",":","0","}","}">>
ReplyNoTool == <<"{","\"","s","e","r","v","e","r","_","n","a","m","e","\"",":","\"","f","i","l","e","s","y","s","t","e","m","\"","}">>

PlannerTexts ==
  {ReplyBlank,
   ReplyEmptyObject,
   ReplyFencedEmptyObject,
   ReplySpacedEmptyObject,
   ReplyProse,
   ReplyNull,
   ReplyEmptyList,
   ReplyList,
   ReplyNumber,
   ReplyReadFile,
   ReplyFencedListDir,
   ReplyNoServer,
   ReplyNoPrefix,
   ReplyOtherPrefix,
   ReplyUnknownServer,
   ReplyUnknownPrefix,
   ReplyUnknownTool,
   ReplyToolNumber,
   ReplyToolNumberNoServer,
   ReplyToolZero,
   ReplyServerList,
   ReplyServerNumber,
   ReplyServerBlank,
   ReplyArgsList,
   ReplyArgsNull,
   ReplyMissingRequired,
   ReplyBelowMinimum,
   ReplyNoTool}

\* json.loads on the cleaned sample texts: the parsed value, or raised |-> TRUE
\* where json.loads raises JSONDecodeError.
json_loads(text) ==
  CASE text = <<"{","}">> ->
         Returned(EmptyDict, <<>>)
    [] text = <<"{"," ","}">> ->
         Returned(EmptyDict, <<>>)
    [] text = <<"n","u","l","l">> ->
         Returned(JNone, <<>>)
    [] text = <<"[","]">> ->
         Returned(JList(0), <<>>)
    [] text = <<"[","1","]">> ->
         Returned(JList(1), <<>>)
    [] text = <<"5">> ->
         Returned(JInt(5), <<>>)
    [] text = <<"{","\"","s","e","r","v","e","r","_","n","a","m","e","\"",":","\"","f","i","l","e","s","y","s","t","e","m","\"",",","\"","t","o","o","l","_","n","a","m","e","\"",":","\"","f","i","l","e","s","y","s","t","e","m",".","r","e","a","d","_","f","i","l","e","\"",",","\"","a","r","g","s","\"",":","{","\"","p","a","t","h","\"",":","\"","a",".","t","x","t","\"","}","}">> ->
         Returned(JDict([server_name |-> JStr(<<"f","i","l","e","s","y","s","t","e","m">>), tool_name |-> JStr(<<"f","i","l","e","s","y","s","t","e","m",".","r","e","a","d","_","f","i","l","e">>), args |-> JDict([path |-> JStr(<<"a",".","t","x","t">>)])]), <<>>)
    [] text = <<"{","\"","s","e","r","v","e","r","_","n","a","m","e","\"",":","\"","f","i","l","e","s","y","s","t","e","m","\"",",","\"","t","o","o","l","_","n","a","m","e","\"",":","\"","f","i","l","e","s","y","s","t","e","m",".","l","i","s","t","_","d","i","r","\"",",","\"","a","r","g","s","\"",":","{","\"","p","a","t","h","\"",":","\"",".","\"","}","}">> ->
         Returned(JDict([server_name |-> JStr(<<"f","i","l","e","s","y","s","t","e","m">>), tool_name |-> JStr(<<"f","i","l","e","s","y","s","t","e","m",".","l","i","s","t","_","d","i","r">>), args |-> JDict([path |-> JStr(<<".">>)])]), <<>>)
    [] text = <<"{","\"","t","o","o","l","_","n","a","m","e","\"",":","\"","b","r","o","w","s","e","r",".","p","e","r","f","o","r","m","_","g","o","o","g","l","e","_","s","e","a","r","c","h","\"",",","\"","a","r","g","s","\"",":","{","\"","q","u","e","r","y","\"",":","\"","x","\"","}","}">> ->
         Returned(JDict([tool_name |-> JStr(<<"b","r","o","w","s","e","r",".","p","e","r","f","o","r","m","_","g","o","o","g","l","e","_","s","e","a","r","c","h">>), args |-> JDict([query |-> JStr(<<"x">>)])]), <<>>)
    [] text = <<"{","\"","s","e","r","v","e","r","_","n","a","m","e","\"",":","\"","f","i","l","e","s","y","s","t","e","m","\"",",","\"","t","o","o","l","_","n","a","m","e","\"",":","\"","l","i","s","t","_","d","i","r","\"",",","\"","a","r","g","s","\"",":","{","\"","p","a","t","h","\"",":","\"",".","\"","}","}">> ->
         Returned(JDict([server_name |-> JStr(<<"f","i","l","e","s","y","s","t","e","m">>), tool_name |-> JStr(<<"l","i","s","t","_","d","i","r">>), args |-> JDict([path |-> JStr(<<".">>)])]), <<>>)
    [] text = <<"{","\"","s","e","r","v","e","r","_","n","a","m","e","\"",":","\"","f","i","l","e","s","y","s","t","e","m","\"",",","\"","t","o","o","l","_","n","a","m","e","\"",":","\"","b","r","o","w","s","e","r",".","b","r","o","w","s","e","_","w","e","b","s","i","t","e","\"",",","\"","a","r","g","s","\"",":","{","\"","u","r","l","\"",":","\"","u","\"","}","}">> ->
         Returned(JDict([server_name |-> JStr(<<"f","i","l","e","s","y","s","t","e","m">>), tool_name |-> JStr(<<"b","r","o","w","s","e","r",".","b","r","o","w","s","e","_","w","e","b","s","i","t","e">>), args |-> JDict([url |-> JStr(<<"u">>)])]), <<>>)
    [] text = <<"{","\"","s","e","r","v","e","r","_","n","a","m","e","\"",":","\"","s","l","a","c","k","\"",",","\"","t","o","o","l","_","n","a","m","e","\"",":","\"","p","o","s","t","\"",",","\"","a","r","g","s","\"",":","{","}","}">> ->
         Returned(JDict([server_name |-> JStr(<<"s","l","a","c","k">>), tool_name |-> JStr(<<"p","o","s","t">>), args |-> EmptyDict]), <<>>)
    [] text = <<"{","\"","t","o","o","l","_","n","a","m","e","\"",":","\"","s","l","a","c","k",".","p","o","s","t","\"","}">> ->
         Returned(JDict([tool_name |-> JStr(<<"s","l","a","c","k",".","p","o","s","t">>)]), <<>>)
    [] text = <<"{","\"","s","e","r","v","e","r","_","n","a","m","e","\"",":","\"","g","i","t","h","u","b","\"",",","\"","t","o","o","l","_","n","a","m","e","\"",":","\"","g","i","t","h","u","b",".","f","o","r","k","\"",",","\"","a","r","g","s","\"",":","{","}","}">> ->
         Returned(JDict([server_name |-> JStr(<<"g","i","t","h","u","b">>), tool_name |-> JStr(<<"g","i","t","h","u","b",".","f","o","r","k">>), args |-> EmptyDict]), <<>>)
    [] text = <<"{","\"","s","e","r","v","e","r","_","n","a","m","e","\"",":","\"","g","i","t","h","u","b","\"",",","\"","t","o","o","l","_","n","a","m","e","\"",":","5","}">> ->
         Returned(JDict([server_name |-> JStr(<<"g","i","t","h","u","b">>), tool_name |-> JInt(5)]), <<>>)
    [] text = <<"{","\"","t","o","o","l","_","n","a","m","e","\"",":","5","}">> ->
         Returned(JDict([tool_name |-> JInt(5)]), <<>>)
    [] text = <<"{","\"","s","e","r","v","e","r","_","n","a","m","e","\"",":","\"","g","i","t","h","u","b","\"",",","\"","t","o","o","l","_","n","a","m","e","\"",":","0","}">> ->
         Returned(JDict([server_name |-> JStr(<<"g","i","t","h","u","b">>), tool_name |-> JInt(0)]), <<>>)
    [] text = <<"{","\"","s","e","r","v","e","r","_","n","a","m","e","\"",":","[","1","]",",","\"","t","o","o","l","_","n","a","m","e","\"",":","\"","a",".","b","\"","}">> ->
         Returned(JDict([server_name |-> JList(1), tool_name |-> JStr(<<"a",".","b">>)]), <<>>)
    [] text = <<"{","\"","s","e","r","v","e","r","_","n","a","m","e","\"",":","5",",","\"","t","o","o","l","_","n","a","m","e","\"",":","\"","a",".","b","\"","}">> ->
         Returned(JDict([server_name |-> JInt(5), tool_name |-> JStr(<<"a",".","b">>)]), <<>>)
    [] text = <<"{","\"","s","e","r","v","e","r","_","n","a","m","e","\"",":","\"","\"",",","\"","t","o","o","l","_","n","a","m","e","\"",":","\"","g","i","t","h","u","b",".","g","e","t","_","r","e","p","o","\"","}">> ->
         Returned(JDict([server_name |-> JStr(<<>>), tool_name |-> JStr(<<"g","i","t","h","u","b",".","g","e","t","_","r","e","p","o">>)]), <<>>)
    [] text = <<"{","\"","s","e","r","v","e","r","_","n","a","m","e","\"",":","\"","f","i","l","e","s","y","s","t","e","m","\"",",","\"","t","o","o","l","_","n","a","m","e","\"",":","\"","f","i","l","e","s","y","s","t","e","m",".","r","e","a","d","_","f","i","l","e","\"",",","\"","a","r","g","s","\"",":","[","1","]","}">> ->
         Returned(JDict([server_name |-> JStr(<<"f","i","l","e","s","y","s","t","e","m">>), tool_name |-> JStr(<<"f","i","l","e","s","y","s","t","e","m",".","r","e","a","d","_","f","i","l","e">>), args |-> JList(1)]), <<>>)
    [] text = <<"{","\"","s","e","r","v","e","r","_","n","a","m","e","\"",":","\"","g","i","t","h","u","b","\"",",","\"","t","o","o","l","_","n","a","m","e","\"",":","\"","g","i","t","h","u","b",".","r","a","t","e","_","l","i","m","i","t","\"",",","\"","a","r","g","s","\"",":","n","u","l","l","}">> ->
         Returned(JDict([server_name |-> JStr(<<"g","i","t","h","u","b">>), tool_name |-> JStr(<<"g","i","t","h","u","b",".","r","a","t","e","_","l","i","m","i","t">>), args |-> JNone]), <<>>)
    [] text = <<"{","\"","s","e","r","v","e","r","_","n","a","m","e","\"",":","\"","f","i","l","e","s","y","s","t","e","m","\"",",","\"","t","o","o","l","_","n","a","m","e","\"",":","\"","f","i","l","e","s","y","s","t","e","m",".","w","r","i","t","e","_","f","i","l","e","\"",",","\"","a","r","g","s","\"",":","{","\"","p","a","t","h","\"",":","\"","a",".","t","x","t","\"","}","}">> ->
         Returned(JDict([server_name |-> JStr(<<"f","i","l","e","s","y","s","t","e","m">>), tool_name |-> JStr(<<"f","i","l","e","s","y","s","t","e","m",".","w","r","i","t","e","_","f","i","l","e">>), args |-> JDict([path |-> JStr(<<"a",".","t","x","t">>)])]), <<>>)
    [] text = <<"{","\"","s","e","r","v","e","r","_","n","a","m","e","\"",":","\"","b","r","o","w","s","e","r","\"",",","\"","t","o","o","l","_","n","a","m","e","\"",":","\"","b","r","o","w","s","e","r",".","p","e","r","f","o","r","m","_","g","o","o","g","l","e","_","s","e","a","r","c","h","\"",",","\"","a","r","g","s","\"",":","{","\"","q","u","e","r","y","\"",":","\"","x","\"",",","\"","c","o","u","n","t","\"",":","0","}","}">> ->
         Returned(JDict([server_name |-> JStr(<<"b","r","o","w","s","e","r">>), tool_name |-> JStr(<<"b","r","o","w","s","e","r",".","p","e","r","f","o","r","m","_","g","o","o","g","l","e","_","s","e","a","r","c","h">>), args |-> JDict([query |-> JStr(<<"x">>), count |-> JInt(0)])]), <<>>)
    [] text = <<"{","\"","s","e","r","v","e","r","_","n","a","m","e","\"",":","\"","f","i","l","e","s","y","s","t","e","m","\"","}">> ->
         Returned(JDict([server_name |-> JStr(<<"f","i","l","e","s","y","s","t","e","m">>)]), <<>>)
    [] OTHER -> Raised("JSONDecodeError", 0, NoMsg, <<>>)

\* What model.generate_content does in llm_select_tool: it raises, or it
\* answers with a text.
PlannerRaises == [kind |-> "raise", text |-> <<>>]
PlannerSays(text) == [kind |-> "text", text |-> text]
NoReply == [kind |-> "none", text |-> <<>>]
PlannerReplies == {PlannerRaises} \cup {PlannerSays(t) : t \in PlannerTexts}

\* llm_select_tool, called with the planner configured: the decision it
\* returns (it raises nothing: every exception of its body is caught).
llm_select_tool(reply) ==
  LET text == clean_json_string(reply.text)
  IN  IF reply.kind = "raise" THEN JNone
      ELSE IF text = <<>> \/ text = <<"{","}">> THEN JNone
      ELSE IF json_loads(text).raised THEN JNone
      ELSE json_loads(text).payload

SearchWords == {<<"s","e","a","r","c","h">>, <<"g","o","o","g","l","e">>, <<"b","i","n","g">>, <<"n","e","w","s">>, <<"l","o","o","k"," ","u","p">>, <<"f","i","n","d">>}
ReadFileWords == {<<"r","e","a","d"," ","f","i","l","e">>, <<"o","p","e","n"," ","f","i","l","e">>, <<"s","h","o","w"," ","f","i","l","e">>, <<"c","a","t"," ","f","i","l","e">>}
RepoWords == {<<"r","e","p","o">>, <<"g","i","t","h","u","b">>, <<"f","i","l","e"," ","i","n"," ","r","e","p","o">>, <<"r","e","a","d"," ","r","e","p","o">>}

AnyIn(words, q) == \E w \in words : Contains(q, w)

ToolCall(server_name, tool_name, args) ==
  JDict([server_name |-> JStr(server_name), tool_name |-> JStr(tool_name), args |-> JDict(args)])

\* q.split(sep)[1].strip().split(): the words of the text after sep
WordsAfter(q, sep) == SplitWords(Strip(SplitSecond(q, sep)))

\* heuristic_select_tool trying the repository words before the others
heuristic_select_tool_repo_first(user_query) ==
  LET q == Lower(user_query)
      pathWords == IF Contains(q, <<"p","a","t","h",":">>) THEN WordsAfter(q, <<"p","a","t","h",":">>)
                   ELSE WordsAfter(q, <<"p","a","t","h">>)
      repoTokens == SelectSeq(SplitWords(q),
                              LAMBDA t : Contains(t, <<"/">>) /\ SplitCount(t, <<"/">>) = 2)
  IN  IF AnyIn(RepoWords, q)
      THEN IF repoTokens # <<>> /\ Contains(q, <<"p","a","t","h",":">>) /\ WordsAfter(q, <<"p","a","t","h",":">>) # <<>>
           THEN Returned(ToolCall(KeyGitHub, <<"g","i","t","h","u","b",".","r","e","a","d","_","f","i","l","e">>,
                                  [repo_full_name |-> JStr(repoTokens[1]),
                                   path |-> JStr(WordsAfter(q, <<"p","a","t","h",":">>)[1])]), <<>>)
           ELSE Returned(JNone, <<>>)
      ELSE IF AnyIn(SearchWords, q)
      THEN Returned(ToolCall(KeyBrowser, <<"b","r","o","w","s","e","r",".","p","e","r","f","o","r","m","_","g","o","o","g","l","e","_","s","e","a","r","c","h">>,
                             [query |-> JStr(user_query)]), <<>>)
      ELSE IF AnyIn(ReadFileWords, q)
      THEN IF Contains(q, <<" ","p","a","t","h"," ">>) \/ Contains(q, <<"p","a","t","h",":">>)
           THEN IF pathWords = <<>>
                THEN Raised("IndexError", 0, Msg("list index out of range", <<>>, <<>>), <<>>)
                ELSE Returned(ToolCall(KeyFilesystem, <<"f","i","l","e","s","y","s","t","e","m",".","r","e","a","d","_","f","i","l","e">>,
                                       [path |-> JStr(pathWords[1])]), <<>>)
           ELSE Returned(JNone, <<>>)
      ELSE Returned(JNone, <<>>)

\* heuristic_select_tool: Returned(decision) or the exception raised
heuristic_select_tool(user_query) ==
  LET q == Lower(user_query)
      pathWords == IF Contains(q, <<"p","a","t","h",":">>) THEN WordsAfter(q, <<"p","a","t","h",":">>)
                   ELSE WordsAfter(q, <<"p","a","t","h">>)
      repoTokens == SelectSeq(SplitWords(q),
                              LAMBDA t : Contains(t, <<"/">>) /\ SplitCount(t, <<"/">>) = 2)
  IN  IF AnyIn(SearchWords, q)
      THEN Returned(ToolCall(KeyBrowser, <<"b","r","o","w","s","e","r",".","p","e","r","f","o","r","m","_","g","o","o","g","l","e","_","s","e","a","r","c","h">>,
                             [query |-> JStr(user_query)]), <<>>)
      ELSE IF AnyIn(ReadFileWords, q)
      THEN IF Contains(q, <<" ","p","a","t","h"," ">>) \/ Contains(q, <<"p","a","t","h",":">>)
           THEN IF pathWords = <<>>
                THEN Raised("IndexError", 0, Msg("list index out of range", <<>>, <<>>), <<>>)
                ELSE Returned(ToolCall(KeyFilesystem, <<"f","i","l","e","s","y","s","t","e","m",".","r","e","a","d","_","f","i","l","e">>,
                                       [path |-> JStr(pathWords[1])]), <<>>)
           ELSE Returned(JNone, <<>>)
      ELSE IF AnyIn(RepoWords, q)
      THEN IF repoTokens # <<>> /\ Contains(q, <<"p","a","t","h",":">>) /\ WordsAfter(q, <<"p","a","t","h",":">>) # <<>>
           THEN Returned(ToolCall(KeyGitHub, <<"g","i","t","h","u","b",".","r","e","a","d","_","f","i","l","e">>,
                                  [repo_full_name |-> JStr(repoTokens[1]),
                                   path |-> JStr(WordsAfter(q, <<"p","a","t","h",":">>)[1])]), <<>>)
           ELSE Returned(JNone, <<>>)
      ELSE Returned(JNone, <<>>)

\* ------------------------------------------------------------------------
\* mcp_host_server: state
\* ------------------------------------------------------------------------

VARIABLES
  phase,              \* "startup" until lifespan has loaded the servers, then "serving"
  HAVE_JSONSCHEMA,    \* mcp_core: the jsonschema import succeeded
  HAVE_GENAI,         \* the google.generativeai import succeeded
  ACTIVE_MODEL_NAME,  \* "None" or the selected model's name
  CONNECTED_SERVERS,  \* dict: registration key -> the instance bound to it
  pc,                 \* where process_user_query stands for the request in hand
  query,              \* HostQuery: user_query, session_id
  planner_reply,      \* what the planner did in llm_select_tool for this request
  decision,           \* process_user_query's local `decision`
  call,               \* its locals server_name, tool_name, args after normalization
  response,           \* how process_user_query ended: the HostResponse or the exception
  calls,              \* per request: which collaborators were called
  bridge,             \* one direct call of run_tool on some IMCPExternalServer subclass
  listing,            \* one aggregation of the tools of a registry's servers
  execution,          \* one direct call of a server class's execute_tool
  loop,              \* the event loop's thread and the run_tool calls of two tasks on it
  teardown,          \* lifespan after its yield: the servers shut down so far
  sandbox,           \* the sandbox directory and the filesystem tool called on it
  manager             \* the BrowserManager and the tasks calling it

hostVars == <<phase, HAVE_GENAI, ACTIVE_MODEL_NAME, CONNECTED_SERVERS, pc, query,
              planner_reply, decision, call, response, calls>>
vars == <<phase, HAVE_JSONSCHEMA, HAVE_GENAI, ACTIVE_MODEL_NAME, CONNECTED_SERVERS, pc,
          query, planner_reply, decision, call, response, calls, bridge, listing, execution, loop, teardown, sandbox, manager>>

\* Sample request texts
QSearch == <<"s","e","a","r","c","h"," ","c","a","t","s">>
QFindRepo == <<"F","i","n","d"," ","r","e","p","o"," ","o","/","r"," ","p","a","t","h",":","x">>
QReadPath == <<"R","e","a","d"," ","F","i","l","e"," ","p","a","t","h",":"," ","A",".","t","x","t">>
QReadPathEnd == <<"r","e","a","d"," ","f","i","l","e"," ","p","a","t","h",":">>
QOpenPathEnd == <<"o","p","e","n"," ","f","i","l","e"," ","p","a","t","h"," ">>
QShowPath == <<"s","h","o","w"," ","f","i","l","e"," ","p","a","t","h"," ","a",".","t","x","t">>
QCatXpath == <<"c","a","t"," ","f","i","l","e"," ","x","p","a","t","h"," ","p","a","t","h"," ","b">>
QReadNoPath == <<"r","e","a","d"," ","f","i","l","e"," ","n","o","t","e","s">>
QReadRepo == <<"r","e","a","d"," ","f","i","l","e"," ","i","n"," ","r","e","p","o"," ","o","/","r"," ","p","a","t","h">>
QGitHub == <<"g","i","t","h","u","b"," ","o","/","r"," ","p","a","t","h",":","a",".","t","x","t">>
QGitHubPathEnd == <<"g","i","t","h","u","b"," ","o","/","r"," ","p","a","t","h",":">>
QRepoNoPath == <<"r","e","p","o"," ","o","/","r">>
QRepoDeep == <<"r","e","p","o"," ","a","/","b","/","c"," ","p","a","t","h",":","x">>
QListFiles == <<"l","i","s","t"," ","f","i","l","e","s"," ","i","n"," ",".">>
QHello == <<"h","e","l","l","o">>
QHealth == <<"H","e","a","l","t","h"," ","C","h","e","c","k">>

Queries ==
  {QSearch, QFindRepo, QReadPath, QReadPathEnd, QOpenPathEnd, QShowPath, QCatXpath,
   QReadNoPath, QReadRepo, QGitHub, QGitHubPathEnd, QRepoNoPath, QRepoDeep, QListFiles,
   QHello, QHealth}

SessionIds == {"default-session", "health-check"}

HealthTexts == {<<"s","t","a","t","u","s"," ","c","h","e","c","k">>, <<"h","o","s","t"," ","s","t","a","t","u","s"," ","c","h","e","c","k">>, <<"h","e","a","l","t","h"," ","c","h","e","c","k">>}

ModelNames == {"None", "models/gemini-1.5-flash"}

\* Class of the instance load_tools registers under a key
ClassOf(key) ==
  CASE key = KeyFilesystem -> "FilesystemMCPServer"
    [] key = KeyBrowser -> "BrowserMCPServer"
    [] key = KeyGitHub -> "GitHubMCPServer"

\* instance = cls(): the object bound to a key.  asyncImpl tells whether its
\* class defines async_execute_tool itself ("coroutine") or inherits the
\* stub of IMCPExternalServer ("base", as the three server classes do);
\* instance numbers the objects registered under the key, one after another.
Instance(key, asyncImpl, instance) ==
  [cls |-> ClassOf(key), asyncImpl |-> asyncImpl, instance |-> instance]

\* The server object behind a registry entry
ServerOf(entry) ==
  LET repo == CASE entry.cls = "FilesystemMCPServer" -> FilesystemMCPServer
                [] entry.cls = "BrowserMCPServer" -> BrowserMCPServer
                [] entry.cls = "GitHubMCPServer" -> GitHubMCPServer
  IN  [repo EXCEPT !.asyncImpl = entry.asyncImpl]

\* HAVE_GENAI and ACTIVE_MODEL_NAME
PlannerConfigured == HAVE_GENAI /\ ACTIVE_MODEL_NAME # "None"

NoQuery == [user_query |-> <<>>, session_id |-> ""]
NoCall == [server_name |-> JNone, tool_name |-> JNone, args |-> JNone]
\* planner, heuristic, summarizer, chat, run_tool: how often each was called;
\* list_tools: the keys of the servers asked for their tools; invoked: the
\* execute implementations run_tool called; run_result: how run_tool ended;
\* summary: what the model did when generate_final_answer called it.
NoCalls == [planner |-> 0, heuristic |-> 0, list_tools |-> <<>>, run_tool |-> 0,
            invoked |-> <<>>, run_result |-> Returned(JNone, <<>>), summarizer |-> 0,
            summary |-> "none", chat |-> 0]

NoResponse ==
  [kind |-> "none", exc |-> "", status |-> 0, detail |-> NoMsg,
   final_answer |-> NoMsg, tool_calls_executed |-> <<>>]
\* return HostResponse(final_answer=..., tool_calls_executed=...)
HostResponse(final_answer, tool_calls_executed) ==
  [kind |-> "return", exc |-> "", status |-> 0, detail |-> NoMsg,
   final_answer |-> final_answer, tool_calls_executed |-> tool_calls_executed]
\* an exception leaves process_user_query
Propagates(exc, status, detail) ==
  [kind |-> "raise", exc |-> exc, status |-> status, detail |-> detail,
   final_answer |-> NoMsg, tool_calls_executed |-> <<>>]

\* the tasks that call run_tool concurrently
Requests == {1, 2}

\* a task that has not called run_tool
NoTask == [pc |-> "idle", asyncImpl |-> "", syncImpl |-> "", where |-> "",
           outcome |-> Returned(JNone, <<>>), result |-> Returned(JNone, <<>>)]

\* holder: the task whose code runs on the event loop's thread, 0 for none
NoLoop == [holder |-> 0, task |-> [r \in Requests |-> NoTask]]

\* lifespan has not come to its shutdown half
NoTeardown == [pc |-> "idle", registry |-> <<>>, i |-> 0, called |-> <<>>]

\* SANDBOX_DIR after _ensure_sandbox() made it: the directory itself (the
\* empty path) and nothing in it.  A path is the sequence of its names.
EmptySandbox == [dirs |-> {<<>>}, files |-> {}]

\* the sandbox with no filesystem tool called on it yet
NoSandbox ==
  [pc |-> "idle", tree |-> EmptySandbox, before |-> EmptySandbox, tool_name |-> "",
   args |-> [path |-> <<>>, dst |-> <<>>, recursive |-> FALSE, length |-> 0, max |-> 0],
   result |-> [code |-> 0, error |-> ""]]

\* the coroutines that call the BrowserManager concurrently
Tasks == {1, 2, 3}

\* a task that has called nothing yet
NoManagerTask == [op |-> "none", pc |-> "idle", raised |-> FALSE, cleared |-> FALSE]

\* BrowserManager(): no browser, no playwright, the lock free.  launched
\* counts the browsers launched, live holds those launched on which
\* close() has not been called, owner and waiters are the lock's, met is
\* what the tasks calling now found when the first of them called.
NoManager ==
  [browser |-> 0, playwright |-> FALSE, owner |-> 0, waiters |-> <<>>, launched |-> 0,
   live |-> {}, met |-> [browser |-> 0, launched |-> 0],
   task |-> [t \in Tasks |-> NoManagerTask]]

\* no execute_tool call under way
NoExecution ==
  [pc |-> "idle", cls |-> "", tool_name |-> <<>>, condition |-> "",
   result |-> Returned(JNone, <<>>)]

NoListing == [pc |-> "idle", registry |-> <<>>, available_tools |-> <<>>, out |-> <<>>]

NoBridge ==
  [pc |-> "idle", srv |-> <<>>, tool_name |-> JNone, args |-> JNone,
   outcome |-> Returned(JNone, <<>>), result |-> Returned(JNone, <<>>)]

Init ==
  /\ phase = "startup"
  /\ HAVE_JSONSCHEMA \in BOOLEAN
  /\ HAVE_GENAI \in BOOLEAN
  /\ ACTIVE_MODEL_NAME = "None"
  /\ CONNECTED_SERVERS = <<>>
  /\ pc = "idle"
  /\ query = NoQuery
  /\ planner_reply = NoReply
  /\ decision = JNone
  /\ call = NoCall
  /\ response = NoResponse
  /\ calls = NoCalls
  /\ bridge = NoBridge
  /\ listing = NoListing
  /\ execution = NoExecution
  /\ loop = NoLoop
  /\ teardown = NoTeardown
  /\ sandbox = NoSandbox
  /\ manager = NoManager

\* ------------------------------------------------------------------------
\* mcp_host_server: startup and process_user_query
\* ------------------------------------------------------------------------

\* CONNECTED_SERVERS.items(): the keys in insertion order, which is the
\* candidates' order after one load_tools
RegisteredKeys == SelectSeq(Candidates, LAMBDA k : k \in DOMAIN CONNECTED_SERVERS)

\* load_tools: CONNECTED_SERVERS[key] = instance for every candidate whose
\* import and construction succeed.  A key that is registered already is
\* bound to the new instance; the other entries stay.
load_tools(registry, loaded, asyncImpl) ==
  [k \in DOMAIN registry \cup loaded |->
     IF k \in loaded
     THEN Instance(k, asyncImpl, IF k \in DOMAIN registry THEN registry[k].instance + 1 ELSE 1)
     ELSE registry[k]]

\* lifespan up to its yield: configure_genai_from_env selects a model or
\* none, load_tools registers the candidates whose import and construction
\* succeed.
lifespan_startup ==
  /\ phase = "startup"
  /\ \E model \in ModelNames, loaded \in SUBSET {KeyFilesystem, KeyBrowser, KeyGitHub} :
       /\ ACTIVE_MODEL_NAME' = IF HAVE_GENAI THEN model ELSE "None"
       /\ CONNECTED_SERVERS' = load_tools(CONNECTED_SERVERS, loaded, "base")
  /\ phase' = "serving"
  /\ UNCHANGED <<HAVE_JSONSCHEMA, HAVE_GENAI, pc, query, planner_reply, decision, call,
                 response, calls, bridge, listing, execution, loop, teardown, sandbox, manager>>

\* A POST /query arrives: FastAPI calls process_user_query(query).
Arrive ==
  /\ phase = "serving"
  /\ pc = "idle"
  /\ \E q \in Queries, sid \in SessionIds :
       query' = [user_query |-> q, session_id |-> sid]
  /\ pc' = "entry"
  /\ UNCHANGED <<phase, HAVE_JSONSCHEMA, HAVE_GENAI, ACTIVE_MODEL_NAME, CONNECTED_SERVERS,
                 planner_reply, decision, call, response, calls, bridge, listing, execution, loop, teardown, sandbox, manager>>

IsHealthCheck(qry) ==
  qry.session_id = "health-check" \/ Lower(qry.user_query) \in HealthTexts

\* the registry check left out
NoServersLoadedNever == FALSE

\* line 341: not CONNECTED_SERVERS
NoServersLoaded == DOMAIN CONNECTED_SERVERS = {}

\* Entry with the empty-registry test ahead of the health bypass
EntryRegistryFirst ==
  /\ pc = "entry"
  /\ IF NoServersLoaded
     THEN /\ response' = Propagates("HTTPException", 503,
                                    Msg("Backend running but no tools loaded.", <<>>, <<>>))
          /\ pc' = "done"
          /\ UNCHANGED calls
     ELSE IF IsHealthCheck(query)
     THEN /\ response' = HostResponse(Msg("Online", <<>>, <<>>), <<>>)
          /\ pc' = "done"
          /\ UNCHANGED calls
     ELSE /\ calls' = [calls EXCEPT !.list_tools = RegisteredKeys]
          /\ pc' = "plan"
          /\ UNCHANGED response
  /\ UNCHANGED <<phase, HAVE_JSONSCHEMA, HAVE_GENAI, ACTIVE_MODEL_NAME, CONNECTED_SERVERS,
                 query, planner_reply, decision, call, bridge, listing, execution, loop, teardown, sandbox, manager>>

\* process_user_query lines 338-350: the health bypass, the empty-registry
\* check and the gathering of the tool descriptors.
Entry ==
  /\ pc = "entry"
  /\ IF IsHealthCheck(query)
     THEN /\ response' = HostResponse(Msg("Online", <<>>, <<>>), <<>>)
          /\ pc' = "done"
          /\ UNCHANGED calls
     ELSE IF NoServersLoaded
     THEN /\ response' = Propagates("HTTPException", 503,
                                    Msg("Backend running but no tools loaded.", <<>>, <<>>))
          /\ pc' = "done"
          /\ UNCHANGED calls
     ELSE /\ calls' = [calls EXCEPT !.list_tools = RegisteredKeys]
          /\ pc' = "plan"
          /\ UNCHANGED response
  /\ UNCHANGED <<phase, HAVE_JSONSCHEMA, HAVE_GENAI, ACTIVE_MODEL_NAME, CONNECTED_SERVERS,
                 query, planner_reply, decision, call, bridge, listing, execution, loop, teardown, sandbox, manager>>

\* line 353: ask the planner when it is configured
Plan ==
  /\ pc = "plan"
  /\ IF PlannerConfigured
     THEN \E reply \in PlannerReplies :
            /\ planner_reply' = reply
            /\ decision' = llm_select_tool(reply)
            /\ calls' = [calls EXCEPT !.planner = @ + 1]
     ELSE /\ decision' = JNone
          /\ UNCHANGED <<planner_reply, calls>>
  /\ pc' = "fallback"
  /\ UNCHANGED <<phase, HAVE_JSONSCHEMA, HAVE_GENAI, ACTIVE_MODEL_NAME, CONNECTED_SERVERS,
                 query, call, response, bridge, listing, execution, loop, teardown, sandbox, manager>>

\* lines 356-357: the heuristic when the decision is None
Fallback ==
  /\ pc = "fallback"
  /\ IF decision.t = "none"
     THEN LET h == heuristic_select_tool(query.user_query)
          IN  /\ calls' = [calls EXCEPT !.heuristic = @ + 1]
              /\ IF h.raised
                 THEN /\ response' = Propagates(h.exc, 0, h.message)
                      /\ pc' = "done"
                      /\ UNCHANGED decision
                 ELSE /\ decision' = h.payload
                      /\ pc' = "dispatch"
                      /\ UNCHANGED response
     ELSE /\ pc' = "dispatch"
          /\ UNCHANGED <<decision, response, calls>>
  /\ UNCHANGED <<phase, HAVE_JSONSCHEMA, HAVE_GENAI, ACTIVE_MODEL_NAME, CONNECTED_SERVERS,
                 query, planner_reply, call, bridge, listing, execution, loop, teardown, sandbox, manager>>

AttributeError(what) == Raised("AttributeError", 0, Msg(what, <<>>, <<>>), <<>>)

\* lines 365-371: infer a missing server name from the tool name's prefix.
\* Returned(server_name), or the AttributeError of startswith on a tool
\* name that is true but no str.
InferServer(server_name, tool_name) ==
  IF server_name.t # "none" THEN Returned(server_name, <<>>)
  ELSE IF ~Truthy(tool_name) THEN Returned(server_name, <<>>)
  ELSE IF tool_name.t # "str" THEN AttributeError("object has no attribute 'startswith'")
  ELSE IF StartsWith(tool_name.s, <<"f","i","l","e","s","y","s","t","e","m",".">>) THEN Returned(JStr(KeyFilesystem), <<>>)
  ELSE IF StartsWith(tool_name.s, <<"b","r","o","w","s","e","r",".">>) THEN Returned(JStr(KeyBrowser), <<>>)
  ELSE IF StartsWith(tool_name.s, <<"g","i","t","h","u","b",".">>) THEN Returned(JStr(KeyGitHub), <<>>)
  ELSE Returned(server_name, <<>>)

\* PrefixTool that puts the prefix before the whole tool name
PrefixToolPrepend(server_name, tool_name) ==
  IF ~(Truthy(server_name) /\ Truthy(tool_name)) THEN Returned(tool_name, <<>>)
  ELSE IF tool_name.t # "str" THEN AttributeError("object has no attribute 'startswith'")
  ELSE IF StartsWith(tool_name.s, Str(server_name) \o <<".">>) THEN Returned(tool_name, <<>>)
  ELSE Returned(JStr(Str(server_name) \o <<".">> \o tool_name.s), <<>>)

\* lines 374-375: give the tool name the server's prefix.  Returned(tool_name)
\* or the AttributeError raised.
PrefixTool(server_name, tool_name) ==
  IF ~(Truthy(server_name) /\ Truthy(tool_name)) THEN Returned(tool_name, <<>>)
  ELSE IF tool_name.t # "str" THEN AttributeError("object has no attribute 'startswith'")
  ELSE IF StartsWith(tool_name.s, Str(server_name) \o <<".">>) THEN Returned(tool_name, <<>>)
  ELSE Returned(JStr(Str(server_name) \o <<".">> \o SplitOnceLast(tool_name.s, <<".">>)), <<>>)

\* server_name in CONNECTED_SERVERS, for a hashable server_name
Registered(server_name) ==
  server_name.t = "str" /\ server_name.s \in DOMAIN CONNECTED_SERVERS

\* lines 360-378, for a decision that is true: the locals server_name,
\* tool_name and args, with the exception raised on the way, if any.
Normalize(d) ==
  LET server0 == DictGet(d, "server_name")
      tool0 == DictGet(d, "tool_name")
      args == OrEmptyDict(DictGet(d, "args"))
      inferred == InferServer(server0, tool0)
      prefixed == PrefixTool(inferred.payload, tool0)
      locals(tool) == [server_name |-> inferred.payload, tool_name |-> tool, args |-> args]
  IN  IF d.t # "dict"
      THEN [error |-> AttributeError("object has no attribute 'get'"), locals |-> NoCall]
      ELSE IF inferred.raised
      THEN [error |-> inferred, locals |-> NoCall]
      ELSE IF prefixed.raised
      THEN [error |-> prefixed, locals |-> locals(tool0)]
      ELSE IF ~Hashable(inferred.payload)
      THEN [error |-> Raised("TypeError", 0, Msg("unhashable type", <<>>, <<>>), <<>>),
            locals |-> locals(prefixed.payload)]
      ELSE [error |-> Returned(JNone, <<>>), locals |-> locals(prefixed.payload)]

\* the lookup CONNECTED_SERVERS[server_name] without the membership test before it
ServerNotFoundKeyError(server_name) ==
  Propagates("KeyError", 0, Msg("{}", <<Str(server_name)>>, <<>>))

\* line 378: the answer for a server name that is not registered
ServerNotFound(server_name) ==
  HostResponse(Msg("Server '{}' not found.", <<Str(server_name)>>, <<>>), <<>>)

\* lines 359-380: a true decision is normalized and its server looked up;
\* a false one goes to the chat branch.
Route ==
  /\ pc = "dispatch"
  /\ IF Truthy(decision)
     THEN LET n == Normalize(decision)
          IN  /\ call' = n.locals
              /\ IF n.error.raised
                 THEN /\ response' = Propagates(n.error.exc, 0, n.error.message)
                      /\ pc' = "done"
                 ELSE IF ~Registered(n.locals.server_name)
                 THEN /\ response' = ServerNotFound(n.locals.server_name)
                      /\ pc' = "done"
                 ELSE /\ pc' = "invoke"
                      /\ UNCHANGED response
     ELSE /\ pc' = "chat"
          /\ UNCHANGED <<call, response>>
  /\ UNCHANGED <<phase, HAVE_JSONSCHEMA, HAVE_GENAI, ACTIVE_MODEL_NAME, CONNECTED_SERVERS,
                 query, planner_reply, decision, calls, bridge, listing, execution, loop, teardown, sandbox, manager>>

\* What model.generate_content does in generate_final_answer and in the
\* chat branch: it raises, or it answers with a text.
ModelReplies == {"raise", "text"}

\* lines 317-328: the summary made without the model
simple_summary(tool_result) ==
  LET summary == IF "result" \in DOMAIN tool_result.m THEN tool_result.m["result"]
                 ELSE tool_result
  IN  IF tool_result.t # "dict" THEN MsgOf("{}", tool_result)
      ELSE IF Serializable(summary)
      THEN MsgOf("Tool execution finished. Output (truncated): {}", summary)
      ELSE Msg("Task completed.", <<>>, <<>>)

\* generate_final_answer without the except clause of lines 312-313: the
\* model's failure is the answer
generate_final_answer_nofallback(tool_result, reply) ==
  IF PlannerConfigured
  THEN IF reply = "text" THEN Msg("{resp.text}", <<>>, <<>>)
       ELSE Msg("AI Error: {}", <<>>, <<>>)
  ELSE simple_summary(tool_result)

\* generate_final_answer: the model's summary, or the simple summary when
\* no model is configured or its call raises
generate_final_answer(tool_result, reply) ==
  IF PlannerConfigured /\ reply = "text"
  THEN Msg("{resp.text}", <<>>, <<>>)
  ELSE simple_summary(tool_result)

\* What a provider's own execute implementation may do when it is called
ProviderOutcomes ==
  {Returned(JDict([code |-> JInt(200)]), <<>>),
   Returned(JDict([code |-> JInt(200), result |-> JList(1)]), <<>>),
   Returned(JDict([error |-> JStr(<<"F","i","l","e"," ","n","o","t"," ","f","o","u","n","d">>), code |-> JInt(404)]), <<>>),
   Returned(JDict([result |-> JObject]), <<>>),
   Returned(JStr(<<"d","o","n","e">>), <<>>),
   Raised("ValueError", 0, Msg("boom", <<>>, <<>>), <<>>),
   Raised("ToolExecutionError", 403, Msg("forbidden", <<>>, <<>>), <<>>),
   Raised("ToolExecutionError", 0, Msg("failed", <<>>, <<>>), <<>>),
   Raised("CancelledError", 0, NoMsg, <<>>)}

\* InvokeResponse without the except clauses of lines 390-395
InvokeResponseUncaught(r, reply) ==
  IF ~r.raised
  THEN HostResponse(generate_final_answer(r.payload, reply),
                    <<[server |-> call.server_name, tool |-> call.tool_name,
                       args |-> call.args, result |-> r.payload]>>)
  ELSE Propagates(r.exc, 0, r.message)

\* InvokeResponse with a trace entry in the answer to a ToolExecutionError
InvokeResponseTraced(r, reply) ==
  IF ~r.raised
  THEN HostResponse(generate_final_answer(r.payload, reply),
                    <<[server |-> call.server_name, tool |-> call.tool_name,
                       args |-> call.args, result |-> r.payload]>>)
  ELSE IF r.exc = "ToolExecutionError"
  THEN HostResponse([r.message EXCEPT !.fmt = "Tool error: " \o @],
                    <<[server |-> call.server_name, tool |-> call.tool_name,
                       args |-> call.args, result |-> JNone]>>)
  ELSE IF IsException(r.exc)
  THEN HostResponse([r.message EXCEPT !.fmt = "Tool execution failed: " \o @], <<>>)
  ELSE Propagates(r.exc, 0, r.message)

\* lines 380-395: run the tool on the registered server and answer
InvokeResponse(r, reply) ==
  IF ~r.raised
  THEN HostResponse(generate_final_answer(r.payload, reply),
                    <<[server |-> call.server_name, tool |-> call.tool_name,
                       args |-> call.args, result |-> r.payload]>>)
  ELSE IF r.exc = "ToolExecutionError"
  THEN HostResponse([r.message EXCEPT !.fmt = "Tool error: " \o @], <<>>)
  ELSE IF IsException(r.exc)
  THEN HostResponse([r.message EXCEPT !.fmt = "Tool execution failed: " \o @], <<>>)
  ELSE Propagates(r.exc, 0, r.message)

Invoke ==
  /\ pc = "invoke"
  /\ \E outcome \in ProviderOutcomes, reply \in ModelReplies :
       LET server == ServerOf(CONNECTED_SERVERS[call.server_name.s])
           r == run_tool(server, call.tool_name, call.args, outcome, HAVE_JSONSCHEMA)
       IN  /\ response' = InvokeResponse(r, reply)
           /\ calls' = [calls EXCEPT
                          !.run_tool = @ + 1,
                          !.invoked = @ \o r.invoked,
                          !.run_result = r,
                          !.summarizer = IF r.raised \/ ~PlannerConfigured THEN @ ELSE @ + 1,
                          !.summary = IF r.raised \/ ~PlannerConfigured THEN @ ELSE reply]
  /\ pc' = "done"
  /\ UNCHANGED <<phase, HAVE_JSONSCHEMA, HAVE_GENAI, ACTIVE_MODEL_NAME, CONNECTED_SERVERS,
                 query, planner_reply, decision, call, bridge, listing, execution, loop, teardown, sandbox, manager>>

\* a chat branch that reports the decision it was given as an executed call
ChatTraced ==
  /\ pc = "chat"
  /\ IF PlannerConfigured
     THEN \E reply \in ModelReplies :
            /\ response' = HostResponse(
                             IF reply = "text" THEN Msg("{resp.text}", <<>>, <<>>)
                             ELSE Msg("AI Error: {}", <<>>, <<>>), <<decision>>)
            /\ calls' = [calls EXCEPT !.chat = @ + 1]
     ELSE /\ response' = HostResponse(Msg("Chat fallback: {}", <<query.user_query>>, <<>>),
                                      <<decision>>)
          /\ UNCHANGED calls
  /\ pc' = "done"
  /\ UNCHANGED <<phase, HAVE_JSONSCHEMA, HAVE_GENAI, ACTIVE_MODEL_NAME, CONNECTED_SERVERS,
                 query, planner_reply, decision, call, bridge, listing, execution, loop, teardown, sandbox, manager>>

\* lines 397-407: the chat branch
Chat ==
  /\ pc = "chat"
  /\ IF PlannerConfigured
     THEN \E reply \in ModelReplies :
            /\ response' = HostResponse(
                             IF reply = "text" THEN Msg("{resp.text}", <<>>, <<>>)
                             ELSE Msg("AI Error: {}", <<>>, <<>>), <<>>)
            /\ calls' = [calls EXCEPT !.chat = @ + 1]
     ELSE /\ response' = HostResponse(Msg("Chat fallback: {}", <<query.user_query>>, <<>>), <<>>)
          /\ UNCHANGED calls
  /\ pc' = "done"
  /\ UNCHANGED <<phase, HAVE_JSONSCHEMA, HAVE_GENAI, ACTIVE_MODEL_NAME, CONNECTED_SERVERS,
                 query, planner_reply, decision, call, bridge, listing, execution, loop, teardown, sandbox, manager>>

\* The response (or the exception) has left process_user_query; the next
\* request starts from fresh locals.
Deliver ==
  /\ pc = "done"
  /\ pc' = "idle"
  /\ query' = NoQuery
  /\ planner_reply' = NoReply
  /\ decision' = JNone
  /\ call' = NoCall
  /\ response' = NoResponse
  /\ calls' = NoCalls
  /\ UNCHANGED <<phase, HAVE_JSONSCHEMA, HAVE_GENAI, ACTIVE_MODEL_NAME, CONNECTED_SERVERS,
                 bridge, listing, execution, loop, teardown, sandbox, manager>>

Next ==
  \/ lifespan_startup
  \/ Arrive
  \/ Entry
  \/ Plan
  \/ Fallback
  \/ Route
  \/ Invoke
  \/ Chat
  \/ Deliver

Spec == Init /\ [][Next]_vars

\* ------------------------------------------------------------------------
\* run_tool called directly on an instance of any IMCPExternalServer
\* subclass
\* ------------------------------------------------------------------------

\* Number of properties the generic tools declare
MaxProps == 2

PropNames == <<"p1", "p2", "p3", "p4">>

GenericProps == {PropNames[i] : i \in 1..MaxProps}

\* A descriptor requiring the first k properties: the odd ones are strings,
\* the even ones integers between 1 and 20.
GenericTool(k) ==
  [ name |-> <<"g","e","n","e","r","i","c",".","t">> \o <<Digits[k + 1]>>,
    description |-> "generic tool",
    properties |-> { [name |-> PropNames[i], type |-> IF i % 2 = 1 THEN "string" ELSE "integer",
                      ranged |-> i % 2 = 0, minimum |-> 1, maximum |-> 20] : i \in 1..MaxProps },
    hasRequired |-> k > 0,
    required |-> [i \in 1..k |-> PropNames[i]] ]

GenericTools == [k \in 1..(MaxProps + 1) |-> GenericTool(k - 1)]

ImplKinds == {"base", "coroutine", "plain"}

\* An instance of a subclass that defines async_execute_tool and
\* execute_tool as given
GenericServer(asyncImpl, syncImpl) ==
  [cls |-> "GenericServer", name |-> <<"G","e","n","e","r","i","c">>, tools |-> GenericTools,
   asyncImpl |-> asyncImpl, syncImpl |-> syncImpl]

GenericServers == {GenericServer(a, s) : a \in ImplKinds, s \in ImplKinds}

\* Values a caller may pass as tool_name
BridgeToolNames ==
  {JStr(GenericTools[i].name) : i \in DOMAIN GenericTools}
    \cup {JStr(<<"g","e","n","e","r","i","c",".","n","o","n","e">>), JStr(<<"G","E","N","E","R","I","C",".","T","0">>), JNone}

BridgeValues == {JStr(<<"v">>), JInt(5), JInt(0)}

\* Values a caller may pass as args: None, "", [], [1] and the dicts over
\* the generic properties
BridgeArgs ==
  {JNone, JStr(<<>>), JList(0), JList(1)}
    \cup {JDict(map) : map \in UNION {[keys -> BridgeValues] : keys \in SUBSET GenericProps}}

\* await server.run_tool(tool_name, args)
BridgeCall ==
  /\ bridge.pc = "idle"
  /\ \E srv \in GenericServers, tool_name \in BridgeToolNames, args \in BridgeArgs,
        outcome \in ProviderOutcomes :
       bridge' = [pc |-> "returned", srv |-> srv, tool_name |-> tool_name, args |-> args,
                  outcome |-> outcome,
                  result |-> run_tool(srv, tool_name, args, outcome, HAVE_JSONSCHEMA)]
  /\ UNCHANGED <<HAVE_JSONSCHEMA, hostVars, listing, execution, loop, teardown, sandbox, manager>>

\* The caller has the result; the next call starts afresh.
BridgeReset ==
  /\ bridge.pc = "returned"
  /\ bridge' = NoBridge
  /\ UNCHANGED <<HAVE_JSONSCHEMA, hostVars, listing, execution, loop, teardown, sandbox, manager>>

NextBridge ==
  \/ BridgeCall
  \/ BridgeReset

SpecBridge == Init /\ [][NextBridge]_vars


\* ------------------------------------------------------------------------
\* process_user_query over servers that implement async_execute_tool
\* ------------------------------------------------------------------------

\* lifespan_startup when the candidate classes define async_execute_tool
\* themselves, as the comment of IMCPExternalServer allows implementers to
\* do: run_tool then reaches the server's own implementation.
lifespan_startup_async ==
  /\ phase = "startup"
  /\ \E model \in ModelNames, loaded \in SUBSET {KeyFilesystem, KeyBrowser, KeyGitHub} :
       /\ ACTIVE_MODEL_NAME' = IF HAVE_GENAI THEN model ELSE "None"
       /\ CONNECTED_SERVERS' = load_tools(CONNECTED_SERVERS, loaded, "coroutine")
  /\ phase' = "serving"
  /\ UNCHANGED <<HAVE_JSONSCHEMA, HAVE_GENAI, pc, query, planner_reply, decision, call,
                 response, calls, bridge, listing, execution, loop, teardown, sandbox, manager>>

NextProviders ==
  \/ lifespan_startup
  \/ lifespan_startup_async
  \/ Arrive
  \/ Entry
  \/ Plan
  \/ Fallback
  \/ Route
  \/ Invoke
  \/ Chat
  \/ Deliver

SpecProviders == Init /\ [][NextProviders]_vars

\* ------------------------------------------------------------------------
\* model.generate_content never returning
\* ------------------------------------------------------------------------

\* model.generate_content is called without a timeout (lines 254, 312 and
\* 401) from the coroutine itself: when the call never returns,
\* process_user_query stays in it.
generate_content_blocks ==
  /\ PlannerConfigured
  /\ \/ /\ pc = "plan"
        /\ calls' = [calls EXCEPT !.planner = @ + 1]
     \/ /\ pc = "chat"
        /\ calls' = [calls EXCEPT !.chat = @ + 1]
     \/ /\ pc = "invoke"
        /\ \E outcome \in ProviderOutcomes :
             LET server == ServerOf(CONNECTED_SERVERS[call.server_name.s])
                 r == run_tool(server, call.tool_name, call.args, outcome, HAVE_JSONSCHEMA)
             IN  /\ ~r.raised
                 /\ calls' = [calls EXCEPT
                                !.run_tool = @ + 1,
                                !.invoked = @ \o r.invoked,
                                !.run_result = r,
                                !.summarizer = @ + 1]
  /\ pc' = "blocked"
  /\ UNCHANGED <<phase, HAVE_JSONSCHEMA, HAVE_GENAI, ACTIVE_MODEL_NAME, CONNECTED_SERVERS,
                 query, planner_reply, decision, call, response, bridge, listing, execution, loop, teardown, sandbox, manager>>

NextBlocking ==
  \/ NextProviders
  \/ generate_content_blocks

\* The statements of process_user_query that return or raise once they are
\* started: at each of them one of Entry, Plan, Fallback, Route, Invoke,
\* Chat and Deliver can be taken.
Running == {"entry", "plan", "fallback", "dispatch", "invoke", "chat", "done"}

\* process_user_query leaves the statement it stands at
Proceeds ==
  /\ pc \in Running
  /\ pc' \in (Running \cup {"idle", "blocked"}) \ {pc}

\* The event loop goes on running the coroutine: a request does not stay
\* for ever at a statement that returns or raises.  Nothing is assumed of a
\* generate_content call that never returns.
SpecBlocking == Init /\ [][NextBlocking]_vars /\ WF_pc(Proceeds)

\* ------------------------------------------------------------------------
\* Aggregation of the servers' tools: process_user_query lines 344-350 and
\* list_all_tools
\* ------------------------------------------------------------------------

\* What srv.list_tools() does for a registered server: it returns its
\* descriptors, returns an empty list, returns None, or raises.
ListingKinds == {"tools", "empty", "none", "raises"}

\* The registries aggregated over: the candidates' keys in their order,
\* each bound to a server whose list_tools() behaves in one of these ways.
ListingRegistries ==
  LET entries(keys) == SelectSeq(Candidates, LAMBDA k : k \in keys)
  IN  UNION {{[i \in DOMAIN entries(keys) |-> [key |-> entries(keys)[i], lists |-> f[entries(keys)[i]]]]
                : f \in [keys -> ListingKinds]}
             : keys \in SUBSET {KeyFilesystem, KeyBrowser, KeyGitHub}}

\* The descriptors an entry's server returns when list_tools() returns a list
ListedTools(entry) ==
  IF entry.lists = "tools" THEN list_tools(ServerOf(Instance(entry.key, "base", 1)))
  ELSE <<>>

\* extend(srv.list_tools()) and the comprehension over srv.list_tools()
\* raise when list_tools() raises or returns None
ListingFails(entry) == entry.lists \in {"raises", "none"}

\* gather_tools stopping at the first server whose listing fails
RECURSIVE gather_tools_abort(_)
gather_tools_abort(registry) ==
  IF registry = <<>> \/ ListingFails(Head(registry)) THEN <<>>
  ELSE ListedTools(Head(registry)) \o gather_tools_abort(Tail(registry))

\* process_user_query lines 345-350: available_tools
RECURSIVE gather_tools(_)
gather_tools(registry) ==
  IF registry = <<>> THEN <<>>
  ELSE (IF ListingFails(Head(registry)) THEN <<>> ELSE ListedTools(Head(registry)))
         \o gather_tools(Tail(registry))

\* a dict() that leaves parameters at the default of the field
dict_default_parameters(t) ==
  [name |-> t.name, description |-> t.description,
   parameters |-> [type |-> "object", properties |-> {}, hasRequired |-> TRUE,
                   required |-> <<>>]]

\* MCPTool.dict(): the fields of the model under their names; parameters is
\* the schema dictionary ("type", "properties" and, where given, "required")
dict(t) ==
  [name |-> t.name, description |-> t.description,
   parameters |-> [type |-> "object", properties |-> t.properties,
                   hasRequired |-> t.hasRequired, required |-> t.required]]

\* The value list_all_tools stores for one server: the list of t.dict(), or
\* {"error_listing_tools": True}
ListingOf(entry) ==
  IF ListingFails(entry) THEN [error_listing_tools |-> TRUE, tools |-> <<>>]
  ELSE [error_listing_tools |-> FALSE,
        tools |-> [i \in DOMAIN ListedTools(entry) |-> dict(ListedTools(entry)[i])]]

\* list_all_tools: out, from each registered key to its value
list_all_tools(registry) ==
  [k \in {registry[i].key : i \in DOMAIN registry} |->
     ListingOf(registry[CHOOSE i \in DOMAIN registry : registry[i].key = k])]

\* process_user_query gathers the descriptors of a registry
GatherCall ==
  /\ listing.pc = "idle"
  /\ \E registry \in ListingRegistries :
       listing' = [pc |-> "gathered", registry |-> registry,
                   available_tools |-> gather_tools(registry), out |-> <<>>]
  /\ UNCHANGED <<HAVE_JSONSCHEMA, hostVars, bridge, execution, loop, teardown, sandbox, manager>>

\* GET /tools over a registry
ListAllCall ==
  /\ listing.pc = "idle"
  /\ \E registry \in ListingRegistries :
       listing' = [pc |-> "listed", registry |-> registry,
                   available_tools |-> <<>>, out |-> list_all_tools(registry)]
  /\ UNCHANGED <<HAVE_JSONSCHEMA, hostVars, bridge, execution, loop, teardown, sandbox, manager>>

ListingReset ==
  /\ listing.pc # "idle"
  /\ listing' = NoListing
  /\ UNCHANGED <<HAVE_JSONSCHEMA, hostVars, bridge, execution, loop, teardown, sandbox, manager>>

NextListing ==
  \/ GatherCall
  \/ ListAllCall
  \/ ListingReset

SpecListing == Init /\ [][NextListing]_vars


\* ---------------------------------------------------------------------------
\* The registry over the life of the process: lifespan entered again
\* ---------------------------------------------------------------------------

\* how many times one key is bound by load_tools in a behaviour
MaxLoads == 2

\* lifespan after its yield: stop/shutdown/close is called on every
\* registered server; CONNECTED_SERVERS, a module global, is not cleared, so
\* the next entry of lifespan finds the entries of the last one.
lifespan_shutdown ==
  /\ phase = "serving"
  /\ pc = "idle"
  /\ \A k \in DOMAIN CONNECTED_SERVERS : CONNECTED_SERVERS[k].instance < MaxLoads
  /\ phase' = "startup"
  /\ UNCHANGED <<HAVE_JSONSCHEMA, HAVE_GENAI, ACTIVE_MODEL_NAME, CONNECTED_SERVERS, pc,
                 query, planner_reply, decision, call, response, calls, bridge, listing, execution, loop, teardown, sandbox, manager>>

NextRegistry == lifespan_startup \/ lifespan_shutdown

SpecRegistry == Init /\ [][NextRegistry]_vars

\* ---------------------------------------------------------------------------
\* The server classes' execute_tool, called directly
\* ---------------------------------------------------------------------------

\* What keeps a call from being executed, besides an unknown tool name: the
\* file or directory named is not there; the path is refused (absolute,
\* "..", outside the sandbox); no GitHub token in args or environment; the
\* file system, the GitHub API or the browser raises.
Conditions == {"ok", "missing_file", "forbidden_path", "missing_token", "upstream_failure"}

\* the names a server class lists
NamesOf(tools) == {tools[i].name : i \in DOMAIN tools}

UnknownToolNames == {<<"f","i","l","e","s","y","s","t","e","m",".","n","o","p","e">>, <<"b","r","o","w","s","e","r",".","n","o","p","e">>, <<"g","i","t","h","u","b",".","f","o","r","k">>}

ExecuteToolNames ==
  NamesOf(FilesystemTools) \cup NamesOf(BrowserTools) \cup NamesOf(GitHubTools)
    \cup UnknownToolNames

\* {"error": error, "code": code}
ErrorDict(error, code) == JDict([error |-> JStr(error), code |-> JInt(code)])

\* a payload of a call that was executed; its entries besides code are left out
Executed == JDict([code |-> JInt(200)])

\* str(e) of what the file system, the API or the browser raised
UpstreamText == <<"u","p","s","t","r","e","a","m"," ","f","a","i","l","e","d">>

\* filesystem_server: the tools that answer a path that does not exist with
\* code 404, and their texts
NotFoundText(tool_name) ==
  CASE tool_name = <<"f","i","l","e","s","y","s","t","e","m",".","r","e","a","d","_","f","i","l","e">> -> <<"F","i","l","e"," ","n","o","t"," ","f","o","u","n","d">>
    [] tool_name = <<"f","i","l","e","s","y","s","t","e","m",".","l","i","s","t","_","d","i","r">> -> <<"D","i","r","e","c","t","o","r","y"," ","n","o","t"," ","f","o","u","n","d">>
    [] tool_name \in {<<"f","i","l","e","s","y","s","t","e","m",".","d","e","l","e","t","e">>, <<"f","i","l","e","s","y","s","t","e","m",".","g","e","t","_","m","e","t","a","d","a","t","a">>} -> <<"P","a","t","h"," ","n","o","t"," ","f","o","u","n","d">>
    [] tool_name \in {<<"f","i","l","e","s","y","s","t","e","m",".","m","o","v","e">>, <<"f","i","l","e","s","y","s","t","e","m",".","c","o","p","y">>} -> <<"S","o","u","r","c","e"," ","n","o","t"," ","f","o","u","n","d">>
    [] tool_name = <<"f","i","l","e","s","y","s","t","e","m",".","s","e","a","r","c","h","_","f","i","l","e","s">> -> <<"B","a","s","e"," ","d","i","r","e","c","t","o","r","y"," ","n","o","t"," ","f","o","u","n","d">>
    [] OTHER -> <<>>

\* FilesystemMCPServer.execute_tool: every branch returns a dict, and both
\* except clauses turn what was raised into one.
FilesystemExecuteTool(tool_name, condition) ==
  IF tool_name \notin NamesOf(FilesystemTools)
  THEN Returned(ErrorDict(<<"U","n","k","n","o","w","n"," ","t","o","o","l",":"," ">> \o tool_name, 404), <<>>)
  ELSE IF condition = "forbidden_path"
  THEN Returned(ErrorDict(<<"P","a","t","h"," ","t","r","a","v","e","r","s","a","l"," ","d","e","t","e","c","t","e","d"," ","(",".","."," ","n","o","t"," ","a","l","l","o","w","e","d",")",".">>, 400), <<>>)
  ELSE IF condition = "missing_file" /\ NotFoundText(tool_name) # <<>>
  THEN Returned(ErrorDict(NotFoundText(tool_name), 404), <<>>)
  ELSE IF condition = "upstream_failure"
  THEN Returned(ErrorDict(UpstreamText, 500), <<>>)
  ELSE Returned(Executed, <<>>)

\* github_server._base_response
BaseResponse(code, data, error) ==
  IF code >= 400 THEN JDict([code |-> JInt(code), error |-> error])
  ELSE JDict([code |-> JInt(code), result |-> data])

\* the GitHub tools that take a path in the repository
GitHubPathTools ==
  {<<"g","i","t","h","u","b",".","r","e","a","d","_","f","i","l","e">>, <<"g","i","t","h","u","b",".","c","r","e","a","t","e","_","o","r","_","u","p","d","a","t","e","_","f","i","l","e">>, <<"g","i","t","h","u","b",".","d","e","l","e","t","e","_","f","i","l","e">>}

\* GitHubMCPServer.execute_tool: every return goes through _base_response
GitHubExecuteTool(tool_name, condition) ==
  IF condition = "missing_token"
  THEN Returned(BaseResponse(401, JNone,
         JStr(<<"G","i","t","H","u","b"," ","t","o","k","e","n"," ","n","o","t"," ","p","r","o","v","i","d","e","d","."," ","S","e","t"," ","G","I","T","H","U","B","_","P","A","T"," ","o","r"," ","p","a","s","s"," ","g","i","t","h","u","b","_","t","o","k","e","n"," ","i","n"," ","a","r","g","s",".">>)), <<>>)
  ELSE IF tool_name \notin NamesOf(GitHubTools)
  THEN Returned(BaseResponse(404, JNone, JStr(<<"U","n","k","n","o","w","n"," ","t","o","o","l",":"," ">> \o tool_name)), <<>>)
  ELSE IF condition = "forbidden_path" /\ tool_name \in GitHubPathTools
  THEN Returned(BaseResponse(400, JNone,
         JStr(IF tool_name = <<"g","i","t","h","u","b",".","r","e","a","d","_","f","i","l","e">> THEN <<"I","n","v","a","l","i","d"," ","r","e","p","o","_","f","u","l","l","_","n","a","m","e"," ","o","r"," ","p","a","t","h">>
              ELSE <<"I","n","v","a","l","i","d"," ","a","r","g","u","m","e","n","t","s">>)), <<>>)
  ELSE IF condition = "missing_file" /\ tool_name \in {<<"g","i","t","h","u","b",".","r","e","a","d","_","f","i","l","e">>, <<"g","i","t","h","u","b",".","d","e","l","e","t","e","_","f","i","l","e">>}
  THEN Returned(BaseResponse(404, JNone, JStr(<<"F","i","l","e"," ","n","o","t"," ","f","o","u","n","d">>)), <<>>)
  ELSE IF condition = "upstream_failure"
  THEN Returned(BaseResponse(500, JNone, JStr(UpstreamText)), <<>>)
  ELSE Returned(BaseResponse(200, JList(1), JNone), <<>>)

\* BrowserMCPServer.execute_tool
BrowserExecuteTool(tool_name, condition) ==
  IF tool_name \notin NamesOf(BrowserTools)
  THEN Returned(ErrorDict(<<"T","o","o","l"," ">> \o tool_name \o <<" ","n","o","t"," ","f","o","u","n","d">>, 404), <<>>)
  ELSE IF condition = "upstream_failure"
  THEN Returned(ErrorDict(UpstreamText, 500), <<>>)
  ELSE Returned(Executed, <<>>)

\* cls().execute_tool(tool_name, args) under a condition
ExecuteTool(cls, tool_name, condition) ==
  CASE cls = "FilesystemMCPServer" -> FilesystemExecuteTool(tool_name, condition)
    [] cls = "BrowserMCPServer" -> BrowserExecuteTool(tool_name, condition)
    [] cls = "GitHubMCPServer" -> GitHubExecuteTool(tool_name, condition)

ServerClasses == {"FilesystemMCPServer", "BrowserMCPServer", "GitHubMCPServer"}

ExecuteCall ==
  /\ execution.pc = "idle"
  /\ \E cls \in ServerClasses, tool_name \in ExecuteToolNames, condition \in Conditions :
       execution' = [pc |-> "returned", cls |-> cls, tool_name |-> tool_name,
                     condition |-> condition,
                     result |-> ExecuteTool(cls, tool_name, condition)]
  /\ UNCHANGED <<HAVE_JSONSCHEMA, hostVars, bridge, listing, loop, teardown, sandbox, manager>>

ExecuteReset ==
  /\ execution.pc = "returned"
  /\ execution' = NoExecution
  /\ UNCHANGED <<HAVE_JSONSCHEMA, hostVars, bridge, listing, loop, teardown, sandbox, manager>>

NextExecute == ExecuteCall \/ ExecuteReset

SpecExecute == Init /\ [][NextExecute]_vars

\* ---------------------------------------------------------------------------
\* run_tool on the event loop: where the implementation runs
\* ---------------------------------------------------------------------------

\* What the implementations of the concurrent calls may do
LoopOutcomes ==
  {Returned(JDict([code |-> JInt(200)]), <<>>),
   Raised("ValueError", 0, Msg("boom", <<>>, <<>>), <<>>)}

\* Where run_tool runs the implementation it has chosen: a coroutine
\* function (the base class's stub is one) is awaited on the caller's loop
\* (lines 117-118, 127-129); a plain function found under the name
\* async_execute_tool is called on the loop's thread (line 120); a plain
\* execute_tool is handed to the executor (lines 131-132).
Where(invocation) ==
  IF invocation.impl = "plain"
  THEN IF invocation.method = "async_execute_tool" THEN "loop" ELSE "executor"
  ELSE "awaited"

\* A task calls run_tool on a server; validation has passed.
LoopInvoke ==
  /\ loop.holder = 0
  /\ \E r \in Requests, srv \in GenericServers, outcome \in LoopOutcomes :
       LET d == Dispatch(srv, JStr(GenericTools[1].name), EmptyDict, outcome)
           where == IF d.invoked = <<>> THEN "" ELSE Where(d.invoked[1])
       IN  /\ loop.task[r].pc = "idle"
           /\ loop' = [holder |-> IF where = "loop" THEN r ELSE 0,
                       task |-> [loop.task EXCEPT ![r] =
                                   [pc |-> IF where = "" THEN "done" ELSE "executing",
                                    asyncImpl |-> srv.asyncImpl, syncImpl |-> srv.syncImpl,
                                    where |-> where, outcome |-> outcome, result |-> d]]]
  /\ UNCHANGED <<HAVE_JSONSCHEMA, hostVars, bridge, listing, execution, teardown, sandbox, manager>>

\* The implementation ends and the task goes on: a call on the loop's
\* thread gives the thread back, a suspended task is resumed when the
\* thread is free.
LoopComplete ==
  /\ \E r \in Requests :
       /\ loop.task[r].pc = "executing"
       /\ loop.holder = IF loop.task[r].where = "loop" THEN r ELSE 0
       /\ loop' = [holder |-> 0,
                   task |-> [loop.task EXCEPT ![r].pc = "done"]]
  /\ UNCHANGED <<HAVE_JSONSCHEMA, hostVars, bridge, listing, execution, teardown, sandbox, manager>>

\* The caller has the result of a task.
LoopReset ==
  /\ \E r \in Requests :
       /\ loop.task[r].pc = "done"
       /\ loop' = [loop EXCEPT !.task[r] = NoTask]
  /\ UNCHANGED <<HAVE_JSONSCHEMA, hostVars, bridge, listing, execution, teardown, sandbox, manager>>

NextLoop == LoopInvoke \/ LoopComplete \/ LoopReset

SpecLoop == Init /\ [][NextLoop]_vars

\* ---------------------------------------------------------------------------
\* lifespan after its yield: the servers' shutdown
\* ---------------------------------------------------------------------------

\* how many servers the registry holds at teardown
MaxTeardown == 2

\* shutdown_candidates, in the order tried
ShutdownCandidates == <<"shutdown", "stop", "close">>

\* getattr(srv, attr, None): no such attribute, an attribute that is not
\* callable, a method
AttrKinds == {"absent", "data", "method"}

\* The registered objects as the shutdown loop sees them: what each
\* candidate name is on the object, and whether the method called raises an
\* Exception.
TeardownServers ==
  {[shutdown |-> a, stop |-> b, close |-> c, raises |-> r] :
     a \in AttrKinds, b \in {"absent", "method"}, c \in {"absent", "method"}, r \in BOOLEAN}

TeardownRegistries == UNION {[1..n -> TeardownServers] : n \in 0..MaxTeardown}

\* the candidates that are callable on srv, by their place in the order
CallableOn(srv) == {j \in DOMAIN ShutdownCandidates : srv[ShutdownCandidates[j]] = "method"}

\* the body of the outer loop with every callable candidate called
shutdown_server_every(srv) ==
  [j \in 1..Cardinality(CallableOn(srv)) |->
     [attr |-> ShutdownCandidates[
                 CHOOSE c \in CallableOn(srv) :
                   Cardinality({d \in CallableOn(srv) : d <= c}) = j],
      raised |-> srv.raises]]

\* lines 160-176, the body of the outer loop for one server: the first
\* callable candidate is called and the inner loop left (break); for a
\* call that raises the except clause is what leaves it.  The calls made.
shutdown_server(srv) ==
  IF CallableOn(srv) = {} THEN <<>>
  ELSE <<[attr |-> ShutdownCandidates[CHOOSE c \in CallableOn(srv) :
                                        \A d \in CallableOn(srv) : c <= d],
          raised |-> srv.raises]>>

\* the calls of one server, marked with the server's place in the registry
CallsOf(i, made) == [j \in DOMAIN made |-> [server |-> i, attr |-> made[j].attr,
                                            raised |-> made[j].raised]]

\* lifespan is resumed after its yield with some servers registered
TeardownBegin ==
  /\ teardown.pc = "idle"
  /\ \E registry \in TeardownRegistries :
       teardown' = [pc |-> IF registry = <<>> THEN "down" ELSE "loop",
                    registry |-> registry, i |-> 1, called |-> <<>>]
  /\ UNCHANGED <<HAVE_JSONSCHEMA, hostVars, bridge, listing, execution, loop, sandbox, manager>>

\* one pass of the loop over CONNECTED_SERVERS.items()
TeardownServer ==
  /\ teardown.pc = "loop"
  /\ teardown' = [teardown EXCEPT
                    !.called = @ \o CallsOf(teardown.i, shutdown_server(teardown.registry[teardown.i])),
                    !.i = @ + 1,
                    !.pc = IF teardown.i = Len(teardown.registry) THEN "down" ELSE "loop"]
  /\ UNCHANGED <<HAVE_JSONSCHEMA, hostVars, bridge, listing, execution, loop, sandbox, manager>>

TeardownReset ==
  /\ teardown.pc = "down"
  /\ teardown' = NoTeardown
  /\ UNCHANGED <<HAVE_JSONSCHEMA, hostVars, bridge, listing, execution, loop, sandbox, manager>>

NextTeardown == TeardownBegin \/ TeardownServer \/ TeardownReset

SpecTeardown == Init /\ [][NextTeardown]_vars

\* ---------------------------------------------------------------------------
\* The request-serving operations over one registry
\* ---------------------------------------------------------------------------

\* The registry as list_all_tools goes over it: CONNECTED_SERVERS.items(),
\* each server's list_tools() behaving as lists tells for its key.
ServedRegistry(lists) ==
  [i \in DOMAIN RegisteredKeys |-> [key |-> RegisteredKeys[i], lists |-> lists[RegisteredKeys[i]]]]

\* GET /tools that drops the servers whose listing fails from the registry
ServeToolsEvicting ==
  /\ phase = "serving"
  /\ pc = "idle"
  /\ listing.pc = "idle"
  /\ \E lists \in [DOMAIN CONNECTED_SERVERS -> ListingKinds] :
       /\ listing' = [pc |-> "listed", registry |-> ServedRegistry(lists),
                      available_tools |-> <<>>, out |-> list_all_tools(ServedRegistry(lists))]
       /\ CONNECTED_SERVERS' = [k \in {j \in DOMAIN CONNECTED_SERVERS :
                                         lists[j] \notin {"raises", "none"}} |->
                                  CONNECTED_SERVERS[k]]
  /\ UNCHANGED <<phase, HAVE_JSONSCHEMA, HAVE_GENAI, ACTIVE_MODEL_NAME, pc, query,
                 planner_reply, decision, call, response, calls, bridge, execution, loop,
                 teardown, sandbox, manager>>

\* GET /tools: list_all_tools over CONNECTED_SERVERS
ServeTools ==
  /\ phase = "serving"
  /\ pc = "idle"
  /\ listing.pc = "idle"
  /\ \E lists \in [DOMAIN CONNECTED_SERVERS -> ListingKinds] :
       listing' = [pc |-> "listed", registry |-> ServedRegistry(lists),
                   available_tools |-> <<>>, out |-> list_all_tools(ServedRegistry(lists))]
  /\ UNCHANGED <<HAVE_JSONSCHEMA, hostVars, bridge, execution, loop, teardown, sandbox, manager>>

\* GET /health: {"status": "ok", "tools": list(CONNECTED_SERVERS.keys()),
\* "model": ACTIVE_MODEL_NAME}
health ==
  /\ phase = "serving"
  /\ pc = "idle"
  /\ listing.pc = "idle"
  /\ listing' = [pc |-> "health", registry |-> <<>>, available_tools |-> <<>>,
                 out |-> [status |-> "ok", tools |-> RegisteredKeys,
                          model |-> ACTIVE_MODEL_NAME]]
  /\ UNCHANGED <<HAVE_JSONSCHEMA, hostVars, bridge, execution, loop, teardown, sandbox, manager>>

\* The task of a request is cancelled while process_user_query is
\* suspended in one of its awaits (lines 353, 387, 388): CancelledError, a
\* BaseException, passes the except clauses and leaves the coroutine.
Cancel ==
  /\ pc \in {"plan", "invoke"}
  /\ response' = Propagates("CancelledError", 0, NoMsg)
  /\ pc' = "done"
  /\ UNCHANGED <<phase, HAVE_JSONSCHEMA, HAVE_GENAI, ACTIVE_MODEL_NAME, CONNECTED_SERVERS,
                 query, planner_reply, decision, call, calls, bridge, listing, execution,
                 loop, teardown, sandbox, manager>>

\* The handlers share nothing but the registry, so they are taken one at a
\* time: a request is served while no listing is held.
NextServing ==
  \/ /\ listing.pc = "idle"
     /\ NextProviders
  \/ ServeTools
  \/ health
  \/ Cancel
  \/ ListingReset

SpecServing == Init /\ [][NextServing]_vars

\* ---------------------------------------------------------------------------
\* FilesystemMCPServer.execute_tool on the sandbox directory
\* ---------------------------------------------------------------------------

\* how many files and directories the sandbox holds at most
MaxEntries == 3

MAX_WRITE_BYTES == 2097152

\* s.split(c)
RECURSIVE SplitOn(_, _)
SplitOn(s, c) ==
  IF ~Contains(s, <<c>>) THEN <<s>>
  ELSE <<BeforeFirst(s, <<c>>)>> \o SplitOn(AfterFirst(s, <<c>>), c)

\* Relative paths a caller passes: "", " ", "/a", "d/../a", "a", "d", "d/a"
\* and "a\d"
RelPaths ==
  {<<>>, <<" ">>, <<"/","a">>, <<"d","/",".",".","/","a">>, <<"a">>, <<"d">>, <<"d","/","a">>, <<"a", "\\", "d">>}

\* the name of the temporary file of write_file (its random part left out)
TmpName == <<".","t","m","p","_","w","r","i","t","e","_">>

\* _get_safe_path: the path under SANDBOX_DIR, or the ValueError raised.
\* With no symbolic links in the sandbox a path that passes the three tests
\* resolves inside it, and ALLOWED_TOPDIRS is None.
get_safe_path(relative_path) ==
  LET rel == [i \in DOMAIN Strip(relative_path) |->
                IF Strip(relative_path)[i] = "\\" THEN "/" ELSE Strip(relative_path)[i]]
      parts == SplitOn(rel, "/")
  IN  IF relative_path = <<>> \/ Strip(relative_path) = <<>>
      THEN [raised |-> TRUE, error |-> "Path is required and cannot be empty.", path |-> <<>>]
      ELSE IF StartsWith(rel, <<"/">>)
      THEN [raised |-> TRUE,
            error |-> "Absolute paths are not allowed. Provide a sandbox-relative path.",
            path |-> <<>>]
      ELSE IF \E i \in DOMAIN parts : parts[i] = <<".", ".">>
      THEN [raised |-> TRUE, error |-> "Path traversal detected (.. not allowed).",
            path |-> <<>>]
      ELSE [raised |-> FALSE, error |-> "",
            path |-> SelectSeq(parts, LAMBDA part : part \notin {<<>>, <<".">>})]

\* p.exists(), p.parent and the paths at or under p
Exists(tree, p) == p \in tree.dirs \cup tree.files
Parent(p) == SubSeq(p, 1, Len(p) - 1)
Under(q, p) == Len(q) >= Len(p) /\ SubSeq(q, 1, Len(p)) = p
HasChildren(tree, p) == \E q \in tree.dirs \cup tree.files : q # p /\ Under(q, p)

\* p.mkdir(parents=True, exist_ok=True): p and its missing parents are made;
\* a file at p or above it makes mkdir raise, with nothing made
mkdir(tree, p) ==
  LET prefixes == {SubSeq(p, 1, k) : k \in 0..Len(p)}
  IN  IF prefixes \cap tree.files # {}
      THEN [raised |-> TRUE, tree |-> tree]
      ELSE [raised |-> FALSE, tree |-> [tree EXCEPT !.dirs = @ \cup prefixes]]

\* the tree without p and all under it
Removed(tree, p) ==
  [dirs |-> {q \in tree.dirs : ~Under(q, p)}, files |-> {q \in tree.files : ~Under(q, p)}]

\* all at and under src, put at dst
Placed(tree, src, dst) ==
  LET to(q) == dst \o SubSeq(q, Len(src) + 1, Len(q))
  IN  [dirs |-> {to(q) : q \in {r \in tree.dirs : Under(r, src)}},
       files |-> {to(q) : q \in {r \in tree.files : Under(r, src)}}]

Merged(tree, more) ==
  [dirs |-> tree.dirs \cup more.dirs, files |-> tree.files \cup more.files]

\* the dictionaries execute_tool returns, by their "code" and "error"
Done(tree) == [tree |-> tree, result |-> [code |-> 200, error |-> ""]]
Failed(tree, code, error) == [tree |-> tree, result |-> [code |-> code, error |-> error]]

\* lines 138-149, 196-210, 218-221, 270-283, 285-301: the tools that only
\* read.  found and directory tell what the tool asks of the path.
read_only(tree, tool_name, rel) ==
  LET sp == get_safe_path(rel)
      p == sp.path
  IN  IF sp.raised THEN Failed(tree, 400, sp.error)
      ELSE IF tool_name = "filesystem.file_exists" THEN Done(tree)
      ELSE IF tool_name = "filesystem.read_file"
      THEN IF ~Exists(tree, p) THEN Failed(tree, 404, "File not found")
           ELSE IF p \in tree.dirs THEN Failed(tree, 400, "Path is a directory, not a file")
           ELSE Done(tree)
      ELSE IF tool_name = "filesystem.list_dir"
      THEN IF ~Exists(tree, p) THEN Failed(tree, 404, "Directory not found")
           ELSE IF p \notin tree.dirs THEN Failed(tree, 400, "Path is not a directory")
           ELSE Done(tree)
      ELSE IF tool_name = "filesystem.get_metadata"
      THEN IF ~Exists(tree, p) THEN Failed(tree, 404, "Path not found") ELSE Done(tree)
      ELSE IF p \notin tree.dirs THEN Failed(tree, 404, "Base directory not found")
           ELSE Done(tree)

\* lines 151-179, write_file: the parent is made, then the size is tested,
\* then the temporary file is written and moved to p (into p when p is a
\* directory)
write_file(tree, rel, length, max_bytes) ==
  LET sp == get_safe_path(rel)
      p == sp.path
      made == mkdir(tree, Parent(p))
  IN  IF sp.raised THEN Failed(tree, 400, sp.error)
      ELSE IF made.raised THEN Failed(tree, 500, "{e}")
      ELSE IF length > max_bytes
      THEN Failed(made.tree, 413, "Content too large (>{max_bytes} bytes)")
      ELSE IF p \in made.tree.dirs
      THEN Done([made.tree EXCEPT !.files = @ \cup {p \o <<TmpName>>}])
      ELSE Done([made.tree EXCEPT !.files = @ \cup {p}])

\* lines 181-194, append_file
append_file(tree, rel, length, max_append) ==
  LET sp == get_safe_path(rel)
      p == sp.path
      made == mkdir(tree, Parent(p))
  IN  IF sp.raised THEN Failed(tree, 400, sp.error)
      ELSE IF made.raised THEN Failed(tree, 500, "{e}")
      ELSE IF length > max_append
      THEN Failed(made.tree, 413, "Append content too large (>{max_append} bytes)")
      ELSE IF p \in made.tree.dirs THEN Failed(made.tree, 500, "{e}")
      ELSE Done([made.tree EXCEPT !.files = @ \cup {p}])

\* lines 212-216, make_directory
make_directory(tree, rel) ==
  LET sp == get_safe_path(rel)
      made == mkdir(tree, sp.path)
  IN  IF sp.raised THEN Failed(tree, 400, sp.error)
      ELSE IF made.raised THEN Failed(tree, 500, "{e}")
      ELSE Done(made.tree)

\* lines 223-240, delete
delete(tree, rel, recursive) ==
  LET sp == get_safe_path(rel)
      p == sp.path
  IN  IF sp.raised THEN Failed(tree, 400, sp.error)
      ELSE IF ~Exists(tree, p) THEN Failed(tree, 404, "Path not found")
      ELSE IF p \in tree.dirs /\ ~recursive /\ HasChildren(tree, p)
      THEN Failed(tree, 400, "Directory not empty; use recursive=true to remove")
      ELSE Done(Removed(tree, p))

\* shutil.move(src, dst): into dst when dst is a directory; os.rename, and
\* where that fails for a directory the copy that raises
shutil_move(tree, src, dst) ==
  LET real_dst == IF dst \in tree.dirs THEN dst \o <<src[Len(src)]>> ELSE dst
  IN  IF dst \in tree.dirs /\ src = dst THEN Done(tree)
      ELSE IF dst \in tree.dirs /\ Exists(tree, real_dst) THEN Failed(tree, 500, "{e}")
      ELSE IF src = real_dst THEN Done(tree)
      ELSE IF src \in tree.dirs /\ (Under(real_dst, src) \/ real_dst \in tree.files)
      THEN Failed(tree, 500, "{e}")
      ELSE Done(Merged(Removed(tree, src), Placed(tree, src, real_dst)))

\* lines 242-251, move
move(tree, src_rel, dst_rel) ==
  LET src == get_safe_path(src_rel)
      dst == get_safe_path(dst_rel)
      made == mkdir(tree, Parent(dst.path))
  IN  IF src.raised THEN Failed(tree, 400, src.error)
      ELSE IF dst.raised THEN Failed(tree, 400, dst.error)
      ELSE IF ~Exists(tree, src.path) THEN Failed(tree, 404, "Source not found")
      ELSE IF made.raised THEN Failed(tree, 500, "{e}")
      ELSE shutil_move(made.tree, src.path, dst.path)

\* lines 253-268, copy.  copytree makes dst and its parents, then copies;
\* copy2 writes into dst when dst is a directory.
copy(tree, src_rel, dst_rel) ==
  LET src == get_safe_path(src_rel)
      dst == get_safe_path(dst_rel)
      made == mkdir(tree, Parent(dst.path))
      real_dst == IF dst.path \in made.tree.dirs THEN dst.path \o <<src.path[Len(src.path)]>>
                  ELSE dst.path
  IN  IF src.raised THEN Failed(tree, 400, src.error)
      ELSE IF dst.raised THEN Failed(tree, 400, dst.error)
      ELSE IF ~Exists(tree, src.path) THEN Failed(tree, 404, "Source not found")
      ELSE IF src.path \in tree.dirs
      THEN IF Exists(tree, dst.path)
           THEN Failed(tree, 400, "Destination already exists for directory copy")
           ELSE IF made.raised THEN Failed(tree, 500, "{e}")
           ELSE Done(Merged(made.tree, Placed(tree, src.path, dst.path)))
      ELSE IF made.raised THEN Failed(tree, 500, "{e}")
      ELSE IF real_dst = src.path \/ real_dst \in made.tree.dirs
      THEN Failed(made.tree, 500, "{e}")
      ELSE Done([made.tree EXCEPT !.files = @ \cup {real_dst}])

SandboxTools ==
  {"filesystem.read_file", "filesystem.write_file", "filesystem.append_file",
   "filesystem.list_dir", "filesystem.make_directory", "filesystem.file_exists",
   "filesystem.delete", "filesystem.move", "filesystem.copy", "filesystem.get_metadata",
   "filesystem.search_files", "filesystem.nope"}

\* The args of a call: path (src for move and copy), dst, recursive, the
\* length of content in bytes and max_bytes / max_append_bytes
SandboxArgs ==
  [path : RelPaths, dst : RelPaths, recursive : BOOLEAN, length : {1, 2},
   max : {1, MAX_WRITE_BYTES}]

\* the args a tool does not read, at one value
PlainArgs(tool_name, args) ==
  /\ tool_name \notin {"filesystem.move", "filesystem.copy"} => args.dst = <<>>
  /\ tool_name # "filesystem.delete" => ~args.recursive
  /\ tool_name \notin {"filesystem.write_file", "filesystem.append_file"} =>
       args.length = 1 /\ args.max = MAX_WRITE_BYTES
  /\ tool_name = "filesystem.nope" => args.path = <<>>

\* execute_tool (lines 135-311) on the sandbox as it is
execute_tool_on(tree, tool_name, args) ==
  CASE tool_name = "filesystem.write_file" ->
         write_file(tree, args.path, args.length, args.max)
    [] tool_name = "filesystem.append_file" ->
         append_file(tree, args.path, args.length, args.max)
    [] tool_name = "filesystem.make_directory" -> make_directory(tree, args.path)
    [] tool_name = "filesystem.delete" -> delete(tree, args.path, args.recursive)
    [] tool_name = "filesystem.move" -> move(tree, args.path, args.dst)
    [] tool_name = "filesystem.copy" -> copy(tree, args.path, args.dst)
    [] tool_name = "filesystem.nope" -> Failed(tree, 404, "Unknown tool: {tool_name}")
    [] OTHER -> read_only(tree, tool_name, args.path)

EntriesOf(tree) == (tree.dirs \cup tree.files) \ {<<>>}

\* a filesystem tool is called on the sandbox
SandboxCall ==
  /\ sandbox.pc = "idle"
  /\ \E tool_name \in SandboxTools, args \in SandboxArgs :
       LET r == execute_tool_on(sandbox.tree, tool_name, args)
       IN  /\ PlainArgs(tool_name, args)
           /\ Cardinality(EntriesOf(r.tree)) <= MaxEntries
           /\ sandbox' = [pc |-> "returned", tree |-> r.tree, before |-> sandbox.tree,
                          tool_name |-> tool_name, args |-> args, result |-> r.result]
  /\ UNCHANGED <<HAVE_JSONSCHEMA, hostVars, bridge, listing, execution, loop, teardown, manager>>

\* the caller has the result; the sandbox stays as the call left it
SandboxReturn ==
  /\ sandbox.pc = "returned"
  /\ sandbox' = [NoSandbox EXCEPT !.tree = sandbox.tree, !.before = sandbox.tree]
  /\ UNCHANGED <<HAVE_JSONSCHEMA, hostVars, bridge, listing, execution, loop, teardown, manager>>

NextSandbox ==
  \/ SandboxCall
  \/ SandboxReturn

SpecSandbox == Init /\ [][NextSandbox]_vars

\* ---------------------------------------------------------------------------
\* BrowserManager: start, stop and new_page called by concurrent tasks
\* ---------------------------------------------------------------------------

ManagerOps == {"start", "stop", "new_page"}

\* how many browsers are launched before the tasks stop calling
MaxLaunches == 2

\* a start() that launches without looking at self._browser
AlreadyStartedNever(browser) == FALSE

\* line 82: if self._browser
AlreadyStarted(browser) == browser # 0

\* self._lock released: asyncio.Lock wakes its first waiter, and nobody
\* overtakes a waiter, so the lock goes to the first waiter if there is one
Released(m) ==
  IF m.waiters = <<>> THEN [m EXCEPT !.owner = 0]
  ELSE [m EXCEPT !.owner = Head(m.waiters), !.waiters = Tail(m.waiters)]

\* the call of task t comes to its end
Ended(m, t, raised) ==
  [m EXCEPT !.task[t].pc = "done", !.task[t].raised = raised,
            !.task[t].cleared = (m.browser = 0 /\ ~m.playwright)]

\* start() has returned in task t: the call ends, or new_page goes on to
\* self._browser.new_context() (line 105)
Started(m, t) ==
  IF m.task[t].op = "start" THEN Ended(m, t, FALSE)
  ELSE [m EXCEPT !.task[t].pc = "context"]

\* start() with the lock held (lines 82-85), up to its first await
StartBody(m, t) ==
  IF AlreadyStarted(m.browser) THEN Started(Released(m), t)
  ELSE [m EXCEPT !.task[t].pc = "playwright"]

\* stop() from line 94 on with the lock held: the playwright handle
AfterClose(m, t) ==
  IF m.playwright THEN [m EXCEPT !.task[t].pc = "exiting"]
  ELSE Ended(Released(m), t, FALSE)

\* stop() with the lock held (lines 89-90), up to its first await:
\* close() is called on the browser
StopBody(m, t) ==
  IF m.browser # 0
  THEN [m EXCEPT !.task[t].pc = "closing", !.live = @ \ {m.browser}]
  ELSE AfterClose(m, t)

\* the body of `async with self._lock` for the call of task t
Body(m, t) ==
  IF m.task[t].op = "stop" THEN StopBody(m, t) ELSE StartBody(m, t)

\* async with self._lock: the lock is taken when it is free, else the task
\* waits in line
Locked(m, t) ==
  IF m.owner = 0 THEN Body([m EXCEPT !.owner = t], t)
  ELSE [m EXCEPT !.waiters = Append(@, t), !.task[t].pc = "waiting"]

ManagerOthers ==
  UNCHANGED <<HAVE_JSONSCHEMA, hostVars, bridge, listing, execution, loop, teardown, sandbox>>

\* a task calls start(), stop() or new_page(); the coroutine runs to its
\* first suspension.  new_page (lines 103-105) calls start() when there is
\* no browser, else new_context() on the browser
ManagerCall ==
  /\ \E t \in Tasks, op \in ManagerOps :
       /\ manager.task[t].op = "none"
       /\ LET m == [manager EXCEPT !.task[t].op = op]
          IN  manager' = IF op = "new_page" /\ m.browser # 0
                         THEN [m EXCEPT !.task[t].pc = "context"]
                         ELSE Locked(m, t)
  /\ ManagerOthers

\* a task that waited is given the lock
Acquired ==
  /\ \E t \in Tasks :
       /\ manager.task[t].pc = "waiting"
       /\ manager.owner = t
       /\ manager' = Body(manager, t)
  /\ ManagerOthers

\* line 84: async_playwright().__aenter__() returns
PlaywrightStarted ==
  /\ \E t \in Tasks :
       /\ manager.task[t].pc = "playwright"
       /\ manager' = [manager EXCEPT !.playwright = TRUE, !.task[t].pc = "launch"]
  /\ ManagerOthers

\* line 85: chromium.launch() returns a browser, or raises and start() ends
\* with the lock released
Launched ==
  /\ \E t \in Tasks, raises \in BOOLEAN :
       /\ manager.task[t].pc = "launch"
       /\ manager' =
            IF raises THEN Ended(Released(manager), t, TRUE)
            ELSE Started(Released([manager EXCEPT !.browser = manager.launched + 1,
                                                   !.launched = @ + 1,
                                                   !.live = @ \cup {manager.launched + 1}]), t)
  /\ ManagerOthers

\* lines 91-94: close() returns or raises an Exception; self._browser = None
Closed ==
  /\ \E t \in Tasks :
       /\ manager.task[t].pc = "closing"
       /\ manager' = AfterClose([manager EXCEPT !.browser = 0], t)
  /\ ManagerOthers

\* lines 96-100: __aexit__ returns or raises an Exception;
\* self._playwright = None, and the lock is released
Exited ==
  /\ \E t \in Tasks :
       /\ manager.task[t].pc = "exiting"
       /\ manager' = Ended(Released([manager EXCEPT !.playwright = FALSE]), t, FALSE)
  /\ ManagerOthers

\* lines 105-107: new_context() and then context.new_page() return, or one
\* of them raises (the browser was closed meanwhile)
PageMade ==
  /\ \E t \in Tasks, raises \in BOOLEAN :
       /\ manager.task[t].pc = "context"
       /\ manager' = Ended(manager, t, raises)
  /\ ManagerOthers

\* all calls have ended; the tasks call again on the manager as it is
ManagerReturn ==
  /\ \A t \in Tasks : manager.task[t].pc = "done"
  /\ manager.launched < MaxLaunches
  /\ manager' = [manager EXCEPT !.task = [t \in Tasks |-> NoManagerTask],
                                !.met = [browser |-> manager.browser,
                                         launched |-> manager.launched]]
  /\ ManagerOthers

NextManager ==
  \/ ManagerCall
  \/ Acquired
  \/ PlaywrightStarted
  \/ Launched
  \/ Closed
  \/ Exited
  \/ PageMade
  \/ ManagerReturn

SpecManager == Init /\ [][NextManager]_vars
\* ------------------------------------------------------------------------
\* Properties
\* ------------------------------------------------------------------------

\* The direct call of run_tool has returned or raised
BridgeDone == bridge.pc = "returned"

\* No descriptor of the server's list_tools() carries the name passed
BridgeToolAbsent ==
  \A i \in DOMAIN bridge.srv.tools :
    bridge.tool_name.t # "str" \/ bridge.srv.tools[i].name # bridge.tool_name.s

\* The descriptors of the server's list_tools() that carry the name passed
BridgeToolHits ==
  {i \in DOMAIN bridge.srv.tools :
     bridge.tool_name.t = "str" /\ bridge.srv.tools[i].name = bridge.tool_name.s}

\* C1: for every server and every tool name that no descriptor of its
\* list_tools() carries, run_tool raises ToolExecutionError with code 404
\* and calls neither async_execute_tool nor execute_tool.
C1_NotFoundNoExecute ==
  (BridgeDone /\ BridgeToolAbsent) =>
    /\ bridge.result.raised
    /\ bridge.result.exc = "ToolExecutionError"
    /\ bridge.result.code = 404
    /\ bridge.result.invoked = <<>>

C1_Witness ==
  /\ BridgeDone
  /\ BridgeToolAbsent
  /\ bridge.tool_name.t = "str"
  /\ bridge.srv.asyncImpl = "coroutine"
  /\ bridge.args.t = "dict"
  /\ bridge.result.code = 404

\* The arguments passed hold property r
BridgeArgsHold(r) == bridge.args.t = "dict" /\ r \in DOMAIN bridge.args.m

\* C2: for every known tool and every arguments value that lacks a property
\* of the schema's required list, run_tool raises ToolExecutionError with
\* code 400 and calls neither async_execute_tool nor execute_tool.
C2_MissingRequiredNoExecute ==
  (/\ BridgeDone
   /\ \E i \in BridgeToolHits :
        /\ bridge.srv.tools[i].hasRequired
        /\ \E k \in DOMAIN bridge.srv.tools[i].required :
             ~BridgeArgsHold(bridge.srv.tools[i].required[k])) =>
    /\ bridge.result.raised
    /\ bridge.result.exc = "ToolExecutionError"
    /\ bridge.result.code = 400
    /\ bridge.result.invoked = <<>>

C2_Witness ==
  /\ BridgeDone
  /\ bridge.srv.asyncImpl = "coroutine"
  /\ bridge.args.t = "dict"
  /\ DOMAIN bridge.args.m = {"p1"}
  /\ \E i \in BridgeToolHits : Len(bridge.srv.tools[i].required) = 2
  /\ bridge.result.code = 400
  /\ bridge.result.invoked = <<>>

\* run_tool called the provider's own execute implementation and it raised
BridgeExecuteRaised ==
  /\ BridgeDone
  /\ bridge.result.invoked # <<>>
  /\ \A i \in DOMAIN bridge.result.invoked : bridge.result.invoked[i].impl # "base"
  /\ bridge.outcome.raised

\* C3 as stated: whatever the provider's execute raises, run_tool raises
\* ToolExecutionError with code 500 and the original message.
C3_AlwaysExecutionFailed ==
  BridgeExecuteRaised =>
    /\ bridge.result.raised
    /\ bridge.result.exc = "ToolExecutionError"
    /\ bridge.result.code = 500
    /\ bridge.result.message = bridge.outcome.message

\* C3 amended: an Exception other than ToolExecutionError raised by the
\* provider's execute leaves run_tool as ToolExecutionError with code 500 and
\* the original message; a ToolExecutionError raised by the provider leaves
\* run_tool as it is, with the provider's code and message; an exception
\* that is no Exception (asyncio.CancelledError) leaves run_tool as it is.
C3_WrapsOtherExceptions ==
  BridgeExecuteRaised =>
    /\ bridge.result.raised
    /\ bridge.result.message = bridge.outcome.message
    /\ (IsException(bridge.outcome.exc) /\ bridge.outcome.exc # "ToolExecutionError") =>
         (bridge.result.exc = "ToolExecutionError" /\ bridge.result.code = 500)
    /\ (bridge.outcome.exc = "ToolExecutionError") =>
         (bridge.result.exc = "ToolExecutionError" /\ bridge.result.code = bridge.outcome.code)
    /\ ~IsException(bridge.outcome.exc) => bridge.result.exc = bridge.outcome.exc
    /\ IsException(bridge.result.exc) => bridge.result.exc = "ToolExecutionError"

C3_Witness ==
  /\ BridgeExecuteRaised
  /\ bridge.outcome.exc = "ValueError"
  /\ bridge.result.exc = "ToolExecutionError"
  /\ bridge.result.code = 500

\* process_user_query has come to its end: response holds what leaves it
RequestDone == pc = "done"

\* run_tool was called for the request and raised ToolExecutionError with
\* one of the codes of NotFound, InvalidArguments and ExecutionFailed
BridgeFailure ==
  /\ RequestDone
  /\ calls.run_tool = 1
  /\ calls.run_result.raised
  /\ calls.run_result.exc = "ToolExecutionError"
  /\ calls.run_result.code \in {404, 400, 500}

\* the server name of the normalized call is no key of CONNECTED_SERVERS
ProviderMissing ==
  call.server_name.t # "str" \/ call.server_name.s \notin DOMAIN CONNECTED_SERVERS

\* the decision is a mapping whose server_name and tool_name are texts or
\* absent: a tool call as the selector's contract describes it
WellFormedToolCall ==
  /\ decision.t = "dict"
  /\ Truthy(decision)
  /\ DictGet(decision, "server_name").t \in {"str", "none"}
  /\ DictGet(decision, "tool_name").t \in {"str", "none"}

\* a well-formed tool call was selected and its server is not registered
ProviderNotFound == RequestDone /\ WellFormedToolCall /\ ProviderMissing

\* a request that is no health check was handled with no server registered
NoCapabilities ==
  RequestDone /\ DOMAIN CONNECTED_SERVERS = {} /\ ~IsHealthCheck(query)

\* the request ended with a HostResponse whose final_answer is text
AnsweredWith(text) ==
  /\ response.kind = "return"
  /\ response.final_answer = text
  /\ response.tool_calls_executed = <<>>

\* C4 as stated: for each of NotFound, InvalidArguments, ExecutionFailed,
\* ProviderNotFound and NoCapabilities, process_user_query returns a
\* HostResponse and propagates no exception.
C4_EveryFailureReturned ==
  (BridgeFailure \/ ProviderNotFound \/ NoCapabilities) => response.kind = "return"

\* C4 amended: NotFound, InvalidArguments and ExecutionFailed end in a
\* HostResponse whose final_answer is "Tool error: " and the failure's
\* message, ProviderNotFound in one whose final_answer is "Server '...' not
\* found."; NoCapabilities leaves process_user_query as HTTPException with
\* status 503 and the detail "Backend running but no tools loaded.".
C4_FailuresRecoveredButNoCapabilities ==
  /\ BridgeFailure =>
       AnsweredWith([calls.run_result.message EXCEPT !.fmt = "Tool error: " \o @])
  /\ ProviderNotFound =>
       AnsweredWith(Msg("Server '{}' not found.", <<Str(call.server_name)>>, <<>>))
  /\ NoCapabilities =>
       /\ response.kind = "raise"
       /\ response.exc = "HTTPException"
       /\ response.status = 503
       /\ response.detail = Msg("Backend running but no tools loaded.", <<>>, <<>>)

C4_Witness ==
  /\ BridgeFailure
  /\ calls.run_result.code = 400
  /\ response.kind = "return"
  /\ response.final_answer.fmt # calls.run_result.message.fmt

\* the steps of process_user_query after lines 352-357
PastSelection == pc \in {"dispatch", "invoke", "chat", "done"}

\* C5: whenever the planner call raises, the decision handed on after
\* lines 352-357 is the one heuristic_select_tool returns for the request
\* text, and nothing is raised.
C5_PlannerFailureGivesHeuristic ==
  (planner_reply.kind = "raise" /\ PastSelection) =>
    /\ ~heuristic_select_tool(query.user_query).raised
    /\ decision = heuristic_select_tool(query.user_query).payload
    /\ response.kind # "raise"

\* what json.loads made of the planner's cleaned reply
Parsed == json_loads(clean_json_string(planner_reply.text))

\* a parsed value that is no mapping, or a mapping whose server_name or
\* tool_name is no text or whose args is no mapping
WrongShape(v) ==
  \/ v.t # "dict"
  \/ DictGet(v, "server_name").t \notin {"str", "none"}
  \/ DictGet(v, "tool_name").t \notin {"str", "none"}
  \/ ("args" \in DOMAIN v.m /\ v.m["args"].t # "dict")

\* the planner answered with a text that json.loads parsed into a value of
\* the wrong shape
PlannerWrongShape ==
  /\ planner_reply.kind = "text"
  /\ clean_json_string(planner_reply.text) \notin {<<>>, <<"{", "}">>}
  /\ ~Parsed.raised
  /\ WrongShape(Parsed.payload)

\* C6: for every planner output that parses but has the wrong shape, the
\* heuristic is consulted and no exception leaves process_user_query
\* (stated for the request texts on which heuristic_select_tool itself
\* raises nothing).
C6_WrongShapeFallsBack ==
  (/\ PlannerWrongShape
   /\ RequestDone
   /\ ~heuristic_select_tool(query.user_query).raised) =>
    /\ calls.heuristic = 1
    /\ response.kind # "raise"

\* C7: when a configured planner answers "{}", the selection ends with
\* None: the heuristic is not consulted and run_tool is not called,
\* whatever the request text.
C7_EmptyResultIsFinal ==
  (/\ planner_reply.kind = "text"
   /\ clean_json_string(planner_reply.text) = <<"{", "}">>
   /\ PastSelection) =>
    /\ calls.heuristic = 0
    /\ decision.t = "none"
    /\ calls.run_tool = 0
    /\ calls.invoked = <<>>

\* C8: for every request text, heuristic_select_tool returns a tool call
\* or None and raises nothing.
C8_HeuristicNeverRaises ==
  calls.heuristic = 1 =>
    /\ ~heuristic_select_tool(query.user_query).raised
    /\ response.exc # "IndexError"

\* a request is being handled with no server registered
EmptyRegistryRequest ==
  phase = "serving" /\ pc # "idle" /\ DOMAIN CONNECTED_SERVERS = {}

\* the request ended with the message of the empty registry
NoToolsLoadedMessage ==
  /\ response.status = 503
  /\ response.detail = Msg("Backend running but no tools loaded.", <<>>, <<>>)

\* C9 as stated: every request handled with an empty registry ends with
\* the message of the empty registry, and neither the planner nor the
\* heuristic is called for it.
C9_EmptyRegistryAlwaysNoCapabilities ==
  EmptyRegistryRequest =>
    /\ calls.planner = 0
    /\ calls.heuristic = 0
    /\ RequestDone => NoToolsLoadedMessage

\* C9 amended: a request that is a health check (session_id "health-check",
\* or a health text) is answered "Online" whatever the registry holds; every
\* other request handled with an empty registry ends with HTTPException 503
\* "Backend running but no tools loaded."; in both cases neither the planner
\* nor the heuristic is called.
C9_EmptyRegistryFailsFast ==
  EmptyRegistryRequest =>
    /\ calls.planner = 0
    /\ calls.heuristic = 0
    /\ pc \in {"entry", "done"}
    /\ (RequestDone /\ ~IsHealthCheck(query)) =>
         (response.kind = "raise" /\ response.exc = "HTTPException" /\ NoToolsLoadedMessage)
    /\ (RequestDone /\ IsHealthCheck(query)) =>
         AnsweredWith(Msg("Online", <<>>, <<>>))

C9_Witness ==
  /\ EmptyRegistryRequest
  /\ RequestDone
  /\ PlannerConfigured
  /\ query.user_query = QSearch
  /\ query.session_id = "default-session"
  /\ response.status = 503

\* C10: for every selected tool call whose normalized server name is no
\* key of CONNECTED_SERVERS, process_user_query returns a HostResponse
\* with "Server '...' not found." and an empty tool_calls_executed, raises
\* nothing, and calls neither run_tool nor an execute implementation.
C10_UnknownProviderAnswered ==
  ProviderNotFound =>
    /\ response.kind = "return"
    /\ response.final_answer.fmt = "Server '{}' not found."
    /\ response.final_answer.a = <<Str(call.server_name)>>
    /\ response.tool_calls_executed = <<>>
    /\ calls.run_tool = 0
    /\ calls.invoked = <<>>

C10_Witness ==
  /\ ProviderNotFound
  /\ query.user_query = QGitHub
  /\ call.server_name = JStr(KeyGitHub)
  /\ DOMAIN CONNECTED_SERVERS = {KeyFilesystem, KeyBrowser}
  /\ response.kind = "return"
  /\ calls.heuristic = 1

\* C11: every request handled ends with a response (or an exception), also
\* when model.generate_content never returns: the wait for it is bounded.
C11_EveryRequestAnswered == (pc = "entry") ~> (pc = "done")

\* the descriptors of the servers of a registry whose list_tools() returns a
\* list, in the registry's order
RECURSIVE HealthyTools(_)
HealthyTools(registry) ==
  IF registry = <<>> THEN <<>>
  ELSE (IF Head(registry).lists = "tools"
        THEN list_tools(ServerOf(Instance(Head(registry).key, "base", 1)))
        ELSE <<>>) \o HealthyTools(Tail(registry))

\* the names of a list of descriptors or of their dictionaries
ListedNames(ts) == [i \in DOMAIN ts |-> ts[i].name]

\* the entry of the registry aggregated that is registered under key k
ListingEntry(k) ==
  listing.registry[CHOOSE i \in DOMAIN listing.registry : listing.registry[i].key = k]

\* the descriptors gathered in process_user_query are those of the servers
\* whose list_tools() succeeds
GatheredHealthy ==
  listing.pc = "gathered" => listing.available_tools = HealthyTools(listing.registry)

\* C12 as stated: aggregation over a registry with failing servers gives
\* every healthy server's tools and an empty list for each failing one,
\* in process_user_query and in the /tools listing alike.
C12_FailingProviderListedEmpty ==
  /\ GatheredHealthy
  /\ listing.pc = "listed" =>
       /\ DOMAIN listing.out = {listing.registry[i].key : i \in DOMAIN listing.registry}
       /\ \A k \in DOMAIN listing.out :
            /\ ~listing.out[k].error_listing_tools
            /\ ListedNames(listing.out[k].tools) = ListedNames(HealthyTools(<<ListingEntry(k)>>))

\* C12 amended: neither aggregation fails.  process_user_query gathers the
\* tools of the servers whose list_tools() returns a list and nothing for
\* the others; the /tools listing maps every registered key to its server's
\* tools, and the key of a server whose list_tools() raises or returns None
\* to the marker {"error_listing_tools": true}, not to an empty list.
C12_FailingProviderMarked ==
  /\ GatheredHealthy
  /\ listing.pc = "listed" =>
       /\ DOMAIN listing.out = {listing.registry[i].key : i \in DOMAIN listing.registry}
       /\ \A k \in DOMAIN listing.out :
            /\ listing.out[k].error_listing_tools <=> ListingEntry(k).lists \in {"raises", "none"}
            /\ ListedNames(listing.out[k].tools) = ListedNames(HealthyTools(<<ListingEntry(k)>>))

C12_Witness ==
  /\ listing.pc = "listed"
  /\ Len(listing.registry) = 3
  /\ listing.registry[1].lists = "raises"
  /\ listing.registry[2].lists = "tools"
  /\ listing.registry[3].lists = "tools"
  /\ listing.out[KeyFilesystem].error_listing_tools
  /\ ListedNames(listing.out[KeyBrowser].tools) = ListedNames(BrowserTools)
  /\ ListedNames(listing.out[KeyGitHub].tools) = ListedNames(GitHubTools)


\* ---------------------------------------------------------------------------
\* C13
\* ---------------------------------------------------------------------------

\* C13 as stated: a registration under a name that is registered already
\* does not go through, the registry keeps the provider it held: no step
\* changes the instance bound to a registered key.
C13_RegisteredProviderKept ==
  [][\A k \in DOMAIN CONNECTED_SERVERS :
        /\ k \in DOMAIN CONNECTED_SERVERS'
        /\ CONNECTED_SERVERS'[k] = CONNECTED_SERVERS[k]]_vars

\* ---------------------------------------------------------------------------
\* C14
\* ---------------------------------------------------------------------------

\* C14 as stated: with the filesystem provider alone registered and the
\* heuristic selecting (no planner configured), the request "list files in ."
\* is decided as filesystem.list_dir on the filesystem provider with args
\* {path: "."}.
C14_ListFilesSelectsListDir ==
  (/\ PastSelection
   /\ ~PlannerConfigured
   /\ calls.heuristic = 1
   /\ DOMAIN CONNECTED_SERVERS = {KeyFilesystem}
   /\ query.user_query = QListFiles)
  => decision = ToolCall(KeyFilesystem, <<"f","i","l","e","s","y","s","t","e","m",".","l","i","s","t","_","d","i","r">>, [path |-> JStr(<<".">>)])

\* ---------------------------------------------------------------------------
\* C15, C16
\* ---------------------------------------------------------------------------

\* run_tool was called for the request and returned a payload
RunToolReturned == calls.run_tool = 1 /\ ~calls.run_result.raised

\* C15: a response returned by process_user_query has no or one entry in
\* tool_calls_executed; it has one exactly when run_tool was called for the
\* request and returned a payload, and the entry holds the server name, the
\* normalized tool name and the args that were passed to run_tool (and on to
\* the provider's implementation) and the payload run_tool returned.
C15_TraceHoldsTheOneCall ==
  (RequestDone /\ response.kind = "return")
  => LET trace == response.tool_calls_executed
     IN  /\ Len(trace) <= 1
         /\ (Len(trace) = 1) <=> RunToolReturned
         /\ Len(trace) = 1 =>
              /\ trace[1] = [server |-> call.server_name, tool |-> call.tool_name,
                             args |-> call.args, result |-> calls.run_result.payload]
              /\ Len(calls.invoked) = 1
              /\ calls.invoked[1].tool_name = trace[1].tool
              /\ calls.invoked[1].args = trace[1].args

\* a returned response with its one trace entry, for a call with arguments
C15_Witness ==
  /\ RequestDone
  /\ response.kind = "return"
  /\ Len(response.tool_calls_executed) = 1
  /\ response.tool_calls_executed[1].args # EmptyDict
  /\ response.tool_calls_executed[1].result = JDict([code |-> JInt(200), result |-> JList(1)])

\* C16: within one request run_tool is called at most once and at most one
\* execute implementation of one provider is called, also when validation
\* or the implementation fails.
C16_AtMostOneExecute ==
  /\ calls.run_tool <= 1
  /\ Len(calls.invoked) <= 1
  /\ calls.run_tool = 0 => calls.invoked = <<>>

\* a provider's own implementation was called once and raised
C16_Witness ==
  /\ RequestDone
  /\ calls.run_result.raised
  /\ Len(calls.invoked) = 1
  /\ calls.invoked[1].impl # "base"

\* ---------------------------------------------------------------------------
\* C17
\* ---------------------------------------------------------------------------

\* the codes of NotFound, InvalidArguments and ExecutionFailed
FailureCodes == {404, 400, 500}

\* C17 as stated: the answer to a failure of run_tool embeds the failure's
\* kind next to its message, so a failure of another kind with the same
\* message is answered with another final_answer.
C17_AnswerTellsTheKind ==
  BridgeFailure
  => /\ response.kind = "return"
     /\ \A code \in FailureCodes \ {calls.run_result.code} :
          InvokeResponse([calls.run_result EXCEPT !.code = code], "text").final_answer
            # response.final_answer

\* ---------------------------------------------------------------------------
\* C18
\* ---------------------------------------------------------------------------

\* run_tool returned a payload and generate_final_answer had no model to
\* ask, or the model's call raised
SummarizedWithoutModel ==
  /\ RequestDone
  /\ RunToolReturned
  /\ ~PlannerConfigured \/ calls.summary = "raise"

\* C18: after run_tool returned a payload, with no model configured or with
\* the model's call raising, process_user_query returns a response (nothing
\* is raised) whose final_answer is fixed by the payload alone: the text of
\* a payload that is no dict; for a dict the "Output (truncated)" line over
\* its "result" entry, or over the whole dict when it has none; "Task
\* completed." when that cannot be serialized.  The response carries the
\* one trace entry of the call.
C18_SummaryWithoutModel ==
  SummarizedWithoutModel
  => LET payload == calls.run_result.payload
         shown == IF "result" \in DOMAIN payload.m THEN payload.m["result"] ELSE payload
     IN  /\ response.kind = "return"
         /\ response.final_answer =
              IF payload.t # "dict" THEN MsgOf("{}", payload)
              ELSE IF Serializable(shown)
              THEN MsgOf("Tool execution finished. Output (truncated): {}", shown)
              ELSE Msg("Task completed.", <<>>, <<>>)
         /\ Len(response.tool_calls_executed) = 1
         /\ response.tool_calls_executed[1].result = payload

\* the model's call raised after a successful call, and the answer is the
\* line over the payload's "result" entry
C18_Witness ==
  /\ SummarizedWithoutModel
  /\ PlannerConfigured
  /\ calls.summarizer = 1
  /\ response.final_answer = MsgOf("Tool execution finished. Output (truncated): {}", JList(1))
  /\ Len(response.tool_calls_executed) = 1

\* ---------------------------------------------------------------------------
\* C19
\* ---------------------------------------------------------------------------

\* run_tool was called for the request: call holds what was passed
RunToolCalled == calls.run_tool = 1

\* server_name + "."
ServerPrefix == call.server_name.s \o <<".">>

\* the decision's tool_name and server_name entries
GivenTool == DictGet(decision, "tool_name")
GivenServer == DictGet(decision, "server_name")

\* rest is what follows the first "." of name, or name when it holds none
RestOf(name, rest) ==
  \/ /\ \A i \in 1..Len(name) : name[i] # "."
     /\ rest = name
  \/ \E i \in 1..Len(name) :
       /\ name[i] = "."
       /\ \A j \in 1..(i - 1) : name[j] # "."
       /\ rest = SubSeq(name, i + 1, Len(name))

\* C19 as stated: the tool name passed to run_tool begins with
\* server_name + ".", and a tool name that lacks the prefix is passed with
\* the prefix put before it, the name itself kept.
C19_PrefixPrepended ==
  (RunToolCalled /\ GivenTool.t = "str" /\ GivenTool.s # <<>>)
  => /\ call.tool_name.t = "str"
     /\ StartsWith(call.tool_name.s, ServerPrefix)
     /\ ~StartsWith(GivenTool.s, ServerPrefix) =>
          call.tool_name.s = ServerPrefix \o GivenTool.s

\* C19: run_tool is called on a registered server, the decision's
\* server_name or, when the decision has none, the one of filesystem,
\* browser and github whose prefix the tool name begins with.  A tool name
\* that is a non-empty text is passed beginning with server_name + ".":
\* unchanged when it begins so already, else with its text up to the first
\* "." (a foreign prefix) dropped and the prefix put before the rest.  A
\* missing or empty tool name is passed as it is.
C19_ToolNameNormalized ==
  RunToolCalled
  => /\ call.server_name.t = "str"
     /\ call.server_name.s \in DOMAIN CONNECTED_SERVERS
     /\ GivenServer.t # "none" => call.server_name = GivenServer
     /\ GivenServer.t = "none" =>
          /\ GivenTool.t = "str"
          /\ call.server_name.s \in {KeyFilesystem, KeyBrowser, KeyGitHub}
          /\ StartsWith(GivenTool.s, ServerPrefix)
     /\ IF Truthy(GivenTool)
        THEN /\ GivenTool.t = "str"
             /\ call.tool_name.t = "str"
             /\ StartsWith(call.tool_name.s, ServerPrefix)
             /\ StartsWith(GivenTool.s, ServerPrefix) => call.tool_name = GivenTool
             /\ ~StartsWith(GivenTool.s, ServerPrefix) =>
                  \E n \in 0..Len(GivenTool.s) :
                    LET rest == SubSeq(GivenTool.s, n + 1, Len(GivenTool.s))
                    IN  /\ RestOf(GivenTool.s, rest)
                        /\ call.tool_name.s = ServerPrefix \o rest
        ELSE call.tool_name = GivenTool

\* a foreign prefix was replaced
C19_Witness ==
  /\ RunToolCalled
  /\ GivenTool = JStr(<<"b","r","o","w","s","e","r",".","b","r","o","w","s","e","_","w","e","b","s","i","t","e">>)
  /\ call.server_name = JStr(KeyFilesystem)
  /\ call.tool_name = JStr(<<"f","i","l","e","s","y","s","t","e","m",".","b","r","o","w","s","e","_","w","e","b","s","i","t","e">>)

\* ---------------------------------------------------------------------------
\* C20
\* ---------------------------------------------------------------------------

\* a dict with an "error" entry
ErrorShaped(payload) == payload.t = "dict" /\ "error" \in DOMAIN payload.m

\* C20 as stated: execute_tool signals what it cannot execute by raising;
\* it returns no payload shaped like an error.
C20_ExecuteRaisesItsFailures ==
  execution.pc = "returned"
  => execution.result.raised \/ ~ErrorShaped(execution.result.payload)

\* ---------------------------------------------------------------------------
\* C21
\* ---------------------------------------------------------------------------

\* the implementation run for the task is a plain, blocking function
BlockingExecute(task) == task.result.invoked # <<>> /\ task.result.invoked[1].impl = "plain"

\* the task's server has a blocking execute_tool and inherits async_execute_tool
BlockingProvider(task) == task.syncImpl = "plain" /\ task.asyncImpl = "base"

\* C21 as stated: while a blocking implementation runs for a task the event
\* loop's thread is not held by it, so another task can run; and the task of
\* a server with a blocking execute_tool ends with what execute_tool did.
C21_BlockingExecuteOffLoop ==
  \A r \in Requests :
    /\ (loop.task[r].pc = "executing" /\ BlockingExecute(loop.task[r])) => loop.holder # r
    /\ (loop.task[r].pc = "done" /\ BlockingProvider(loop.task[r])) =>
         /\ loop.task[r].result.raised = loop.task[r].outcome.raised
         /\ loop.task[r].result.payload = loop.task[r].outcome.payload

\* ---------------------------------------------------------------------------
\* C22
\* ---------------------------------------------------------------------------

\* the calls made so far on the server at place k
ShutdownCalls(k) == SelectSeq(teardown.called, LAMBDA c : c.server = k)

\* C22: at teardown at most one of shutdown, stop and close is called on a
\* server, once, and it is the first of the three that is callable; when the
\* loop has ended, every server with a callable candidate has had its call,
\* whether or not a call before it raised.
C22_OneShutdownEach ==
  \A k \in DOMAIN teardown.registry :
    LET srv == teardown.registry[k]
        first == IF srv.shutdown = "method" THEN "shutdown"
                 ELSE IF srv.stop = "method" THEN "stop" ELSE "close"
        callable == "method" \in {srv.shutdown, srv.stop, srv.close}
    IN  /\ Len(ShutdownCalls(k)) <= 1
        /\ \A j \in DOMAIN ShutdownCalls(k) : ShutdownCalls(k)[j].attr = first
        /\ ~callable => ShutdownCalls(k) = <<>>
        /\ (teardown.pc = "down" /\ callable) => Len(ShutdownCalls(k)) = 1

\* the first server's stop raised and the second server's close was called
C22_Witness ==
  /\ teardown.pc = "down"
  /\ Len(teardown.registry) = 2
  /\ teardown.called = <<[server |-> 1, attr |-> "stop", raised |-> TRUE],
                         [server |-> 2, attr |-> "close", raised |-> FALSE]>>
  /\ teardown.registry[1].close = "method"

\* ---------------------------------------------------------------------------
\* C23
\* ---------------------------------------------------------------------------

\* C23: once the servers are loaded, no step of process_user_query (whatever
\* its outcome), of /health or of /tools, and no cancellation of a request,
\* changes CONNECTED_SERVERS: the registered keys and the instance bound to
\* each stay as they are.
C23_RegistryUnchangedWhileServing ==
  [][phase = "serving" => CONNECTED_SERVERS' = CONNECTED_SERVERS]_vars

\* a request over three servers was cancelled in run_tool, the servers are
\* the instances registered at startup
C23_Witness ==
  /\ phase = "serving"
  /\ pc = "done"
  /\ response.exc = "CancelledError"
  /\ call.server_name # JNone
  /\ DOMAIN CONNECTED_SERVERS = {KeyFilesystem, KeyBrowser, KeyGitHub}
  /\ \A k \in DOMAIN CONNECTED_SERVERS : CONNECTED_SERVERS[k].instance = 1

\* ---------------------------------------------------------------------------
\* C24
\* ---------------------------------------------------------------------------

\* the planner (if any) and the heuristic have both been asked and the
\* decision they left is None
SelectedNone == pc \in {"chat", "done"} /\ calls.heuristic = 1 /\ decision = JNone

\* C24: when the decision is None after the planner and the heuristic,
\* run_tool is not called and no execute implementation is invoked; the
\* response has no executed calls, and without a planner its answer is
\* "Chat fallback: " followed by the text of the request.
C24_NoneSelectedNoInvocation ==
  SelectedNone =>
    /\ calls.run_tool = 0
    /\ calls.invoked = <<>>
    /\ (pc = "done" /\ response.kind = "return") =>
         /\ response.tool_calls_executed = <<>>
         /\ ~PlannerConfigured =>
              response.final_answer = Msg("Chat fallback: {}", <<query.user_query>>, <<>>)

\* a request no rule matches was answered by the chat branch with no planner
C24_Witness ==
  /\ SelectedNone
  /\ pc = "done"
  /\ response.kind = "return"
  /\ ~PlannerConfigured
  /\ query.user_query = QHello
  /\ DOMAIN CONNECTED_SERVERS # {}

\* ---------------------------------------------------------------------------
\* C25
\* ---------------------------------------------------------------------------

C26_ExecuteGetsValidatedArgs ==
  bridge.pc = "returned" =>
    \A n \in DOMAIN bridge.result.invoked :
      LET given == bridge.result.invoked[n].args
          tool == list_tools(bridge.srv)[tool_by_name(bridge.srv, bridge.tool_name)]
      IN  /\ given.t = "dict"
          /\ tool.hasRequired =>
               \A k \in DOMAIN tool.required : tool.required[k] \in DOMAIN given.m

\* ---------------------------------------------------------------------------
\* C27
\* ---------------------------------------------------------------------------

\* the heuristic was consulted and left its decision
HeuristicDecided == pc = "dispatch" /\ calls.heuristic = 1

\* the decision is a call of this tool
DecidesTool(tool_name) ==
  decision.t = "dict" /\ decision.m.tool_name = JStr(tool_name)

\* C27: over the lowercased text the search words are tried first, the
\* read-file words second and the repository words third, and the first
\* group with a word in the text decides: with a search word the decision is
\* the browser search of the text; else with a read-file word it is
\* filesystem.read_file or None, never the repository rule's call; else with
\* a repository word it is github.read_file or None; with no word it is
\* None.  An exception leaves the heuristic only from the read-file rule.
C27_FirstMatchingRuleDecides ==
  LET q == Lower(query.user_query)
      search == AnyIn(SearchWords, q)
      readFile == AnyIn(ReadFileWords, q)
      repo == AnyIn(RepoWords, q)
  IN  /\ HeuristicDecided =>
           /\ search =>
                decision = ToolCall(KeyBrowser, <<"b","r","o","w","s","e","r",".","p","e","r","f","o","r","m","_","g","o","o","g","l","e","_","s","e","a","r","c","h">>,
                                    [query |-> JStr(query.user_query)])
           /\ (~search /\ readFile) =>
                decision = JNone \/ DecidesTool(<<"f","i","l","e","s","y","s","t","e","m",".","r","e","a","d","_","f","i","l","e">>)
           /\ (~search /\ ~readFile /\ repo) =>
                decision = JNone \/ DecidesTool(<<"g","i","t","h","u","b",".","r","e","a","d","_","f","i","l","e">>)
           /\ (~search /\ ~readFile /\ ~repo) => decision = JNone
      /\ (pc = "done" /\ calls.heuristic = 1 /\ response.exc = "IndexError") =>
           ~search /\ readFile

\* a text with a read-file word and a repository word but no path: the
\* read-file rule answered None and the repository rule was not tried
C27_Witness ==
  /\ HeuristicDecided
  /\ query.user_query = QReadRepo
  /\ AnyIn(RepoWords, Lower(query.user_query))
  /\ decision = JNone

\* ---------------------------------------------------------------------------
\* C28
\* ---------------------------------------------------------------------------

\* the request in hand has the session id "health-check" or one of the
\* three status texts, in any case
HealthRequest ==
  /\ pc # "idle"
  /\ \/ query.session_id = "health-check"
     \/ Lower(query.user_query) \in {<<"s","t","a","t","u","s"," ","c","h","e","c","k">>, <<"h","o","s","t"," ","s","t","a","t","u","s"," ","c","h","e","c","k">>, <<"h","e","a","l","t","h"," ","c","h","e","c","k">>}

\* C28: a request with session id "health-check", or whose text is, in any
\* case, "status check", "host status check" or "health check", is answered
\* "Online" with no executed calls, and neither the planner, the heuristic,
\* any list_tools, run_tool or execute, the summarizer nor the chat model is
\* called for it, with servers registered or without.
C28_HealthRequestAnsweredOnline ==
  HealthRequest =>
    /\ pc \in {"entry", "done"}
    /\ calls = NoCalls
    /\ pc = "done" => response = HostResponse(Msg("Online", <<>>, <<>>), <<>>)

\* "Health Check" under an ordinary session id was answered while no server
\* is registered
C28_Witness ==
  /\ HealthRequest
  /\ pc = "done"
  /\ query.user_query = QHealth
  /\ query.session_id = "default-session"
  /\ DOMAIN CONNECTED_SERVERS = {}
  /\ response.kind = "return"

\* ---------------------------------------------------------------------------
\* C29
\* ---------------------------------------------------------------------------

\* the call returned one of the error results: 400, 404 or 413 with "error"
ErrorResult ==
  /\ sandbox.pc = "returned"
  /\ sandbox.result.error # ""
  /\ sandbox.result.code \in {400, 404, 413}

\* C29: a filesystem tool call that returns an error result with code 400
\* (path refused, directory not empty, destination exists), 404 (nothing at
\* the path or source) or 413 (content over the limit) leaves the files and
\* directories of the sandbox as they were before the call.
C29_ErrorLeavesSandbox == ErrorResult => sandbox.tree = sandbox.before

\* ---------------------------------------------------------------------------
\* C30
\* ---------------------------------------------------------------------------

\* no stop() has been called among the calls under way or ended
NoStopCalled == \A t \in Tasks : manager.task[t].op # "stop"

\* C30: however start(), stop() and new_page() of concurrent tasks
\* interleave, at most one browser is launched and not yet closed, and it is
\* the one self._browser holds; concurrent calls of start() and new_page()
\* launch at most one browser between them, and exactly one when they met
\* the manager without a browser and one of them has returned; and when
\* stop() ends self._browser and self._playwright are both None.
C30_OneBrowserAtATime ==
  /\ Cardinality(manager.live) <= 1
  /\ manager.live \subseteq {manager.browser}
  /\ \A t \in Tasks :
       (manager.task[t].op = "stop" /\ manager.task[t].pc = "done") =>
         manager.task[t].cleared
  /\ NoStopCalled =>
       /\ manager.launched <= manager.met.launched + 1
       /\ manager.met.browser # 0 => manager.launched = manager.met.launched
       /\ (/\ manager.met.browser = 0
           /\ \E t \in Tasks : manager.task[t].pc = "done" /\ ~manager.task[t].raised) =>
            /\ manager.launched = manager.met.launched + 1
            /\ manager.live = {manager.launched}

\* two new_page() calls met on a manager without a browser, one launched it
\* and both made their page
C30_Witness ==
  /\ manager.met.browser = 0
  /\ manager.launched = manager.met.launched + 1
  /\ manager.live = {manager.launched}
  /\ \E t, u \in Tasks :
       /\ t # u
       /\ manager.task[t].op = "new_page" /\ manager.task[t].pc = "done"
       /\ ~manager.task[t].raised
       /\ manager.task[u].op = "new_page" /\ manager.task[u].pc = "done"
       /\ ~manager.task[u].raised
  /\ \A t \in Tasks : manager.task[t].op \in {"new_page", "none"}

====
